---- MODULE Spec2Model ----
(***************************************************************************)
(* Lake Shore 350 / GL7 sorption cooler driver.                            *)
(*                                                                         *)
(* The module models                                                       *)
(*   - the reading pipeline of lakeshore350/temperature.py (send_command,  *)
(*     read_resistance, read_voltage, read_temperature) and the            *)
(*     read-then-calibrate paths of the GL7 steps and of the GUI,          *)
(*   - the heater and heat-switch controllers of lakeshore350/heaters.py,  *)
(*     switches.py, outputs.py and emergency_heater_stop.py,               *)
(*   - the GL7 steps as main.py runs them, one after the other, each       *)
(*     inside its own KeyboardInterrupt handler.                           *)
(*                                                                         *)
(* Text that crosses the serial line is a sequence of one-character        *)
(* strings; numbers are integers in hundredths, so "12.3" parses to 1230.  *)
(* Python values are tagged records (float, str, None).                    *)
(***************************************************************************)
EXTENDS Integers, Sequences, FiniteSets, TLC

VARIABLES
    reading,    \* the last call of the reading pipeline: arguments, wire, result
    inst,       \* the instrument's actuator settings (heater mode/level, switches)
    call,       \* the last call of an actuator operation: arguments, wire, result
    run,        \* the GL7 run of main.py: position, prompts answered, commands sent
    table,      \* a calibration table: its file, the load's outcome, the last lookup
    port        \* the serial port: open connections, input buffer, the GUI's query

vars == <<reading, inst, call, run, table, port>>

-----------------------------------------------------------------------------
(* Text *)

CR == "\r"
LF == "\n"
NUL == "NUL"     \* the byte \x00
BackTick == "BACKTICK"   \* the grave accent character
Whitespace == {" ", CR, LF, "\t"}

Digits == {"0", "1", "2", "3", "4", "5", "6", "7", "8", "9"}

DigitVal(c) ==
    CASE c = "0" -> 0 [] c = "1" -> 1 [] c = "2" -> 2 [] c = "3" -> 3
      [] c = "4" -> 4 [] c = "5" -> 5 [] c = "6" -> 6 [] c = "7" -> 7
      [] c = "8" -> 8 [] c = "9" -> 9

\* str.upper() on the letters that occur on the line and in the arguments
UpperChar(c) ==
    CASE c = "o" -> "O" [] c = "v" -> "V" [] c = "e" -> "E" [] c = "r" -> "R"
      [] c = "t" -> "T" [] c = "d" -> "D" [] c = "a" -> "A" [] c = "b" -> "B"
      [] c = "c" -> "C" [] c = "n" -> "N" [] c = "f" -> "F"
      [] OTHER -> c

Upper(s) == [i \in 1..Len(s) |-> UpperChar(s[i])]

\* str.strip(): leading and trailing whitespace removed
RECURSIVE LStrip(_)
LStrip(s) ==
    IF s # <<>> /\ Head(s) \in Whitespace THEN LStrip(Tail(s)) ELSE s

RECURSIVE RStrip(_)
RStrip(s) ==
    IF s # <<>> /\ s[Len(s)] \in Whitespace
    THEN RStrip(SubSeq(s, 1, Len(s) - 1))
    ELSE s

Strip(s) == RStrip(LStrip(s))

\* the substring test (sub in s)
Contains(s, sub) ==
    \E i \in 1..(Len(s) - Len(sub) + 1) : SubSeq(s, i, i + Len(sub) - 1) = sub

HasChar(s, c) == \E i \in 1..Len(s) : s[i] = c

AllDigits(s) == \A i \in 1..Len(s) : s[i] \in Digits

RECURSIVE DigitsVal(_)
DigitsVal(s) ==
    IF s = <<>> THEN 0
    ELSE 10 * DigitsVal(SubSeq(s, 1, Len(s) - 1)) + DigitVal(s[Len(s)])

\* int(text): optional sign, then one or more digits; anything else is a
\* ValueError (ok = FALSE)
ParseInt(s) ==
    LET t == Strip(s)
        signed == t # <<>> /\ Head(t) \in {"+", "-"}
        body == IF signed THEN Tail(t) ELSE t
        good == body # <<>> /\ AllDigits(body)
        mag == IF good THEN DigitsVal(body) ELSE 0
    IN [ok |-> good,
        val |-> IF signed /\ Head(t) = "-" THEN 0 - mag ELSE mag]

\* position of the first "." of s, 0 when there is none
DotAt(s) ==
    IF HasChar(s, ".")
    THEN CHOOSE i \in 1..Len(s) : s[i] = "." /\ \A j \in 1..(i - 1) : s[j] # "."
    ELSE 0

\* float(text) for the decimal forms seen on the line: optional sign, digits
\* with at most one ".", at least one digit.  The value is in hundredths;
\* the third and later fractional digits are dropped (the lines used carry
\* zeros there).  Anything else is a ValueError (ok = FALSE).
ParseFloat(s) ==
    LET t == Strip(s)
        signed == t # <<>> /\ Head(t) \in {"+", "-"}
        body == IF signed THEN Tail(t) ELSE t
        dot == DotAt(body)
        ip == IF dot = 0 THEN body ELSE SubSeq(body, 1, dot - 1)
        fp == IF dot = 0 THEN <<>> ELSE SubSeq(body, dot + 1, Len(body))
        good == /\ AllDigits(ip) /\ AllDigits(fp)
                /\ Len(ip) + Len(fp) >= 1
        mag == IF good
               THEN 100 * DigitsVal(ip)
                    + (IF Len(fp) >= 1 THEN 10 * DigitVal(fp[1]) ELSE 0)
                    + (IF Len(fp) >= 2 THEN DigitVal(fp[2]) ELSE 0)
               ELSE 0
    IN [ok |-> good,
        val |-> IF signed /\ Head(t) = "-" THEN 0 - mag ELSE mag]

\* status_code & 32 (bit 5), two's complement for negative codes
Bit5(n) == (n \div 32) % 2 = 1

-----------------------------------------------------------------------------
(* Python values *)

PyFloat(v) == [type |-> "float", val |-> v, text |-> <<>>]
PyStr(s) == [type |-> "str", val |-> 0, text |-> s]
PyNone == [type |-> "none", val |-> 0, text |-> <<>>]

IsFloat(x) == x.type = "float"
IsStr(x) == x.type = "str"

T_OVER == <<"T", "_", "O", "V", "E", "R">>
R_OVER == <<"R", "_", "O", "V", "E", "R">>
V_OVER == <<"V", "_", "O", "V", "E", "R">>
NO_RESPONSE == <<"N", "O", "_", "R", "E", "S", "P", "O", "N", "S", "E">>

\* truthiness of a str-or-None value (if response:)
Truthy(x) == IsStr(x) /\ x.text # <<>>

-----------------------------------------------------------------------------
(* The serial link: what one round trip meets.  writeOk = FALSE is           *)
(* ser.write raising; line is what readline returns, <<>> on a read timeout. *)

Link(w, l) == [writeOk |-> w, line |-> l]

\* TemperatureReader.send_command: the decoded, stripped line; None when the
\* write raised or nothing was read.  Never raises.
send_command(link) ==
    IF ~link.writeOk THEN PyNone
    ELSE IF link.line # <<>> THEN PyStr(Strip(link.line))
    ELSE PyNone

\* A command line: verb, target (channel or output, as text) and numeric
\* arguments.  "OUTMODE 1,3,0,0" is Cmd("OUTMODE", <<"1">>, <<3, 0, 0>>).
Cmd(verb, target, args) == [verb |-> verb, target |-> target, args |-> args]

-----------------------------------------------------------------------------
(* Reading pipeline: lakeshore350/temperature.py *)

InputLetters == {<<"A">>, <<"B">>, <<"C">>, <<"D">>}
ZeroIsFault == {<<"D", "2">>, <<"D", "3">>, <<"D", "4">>, <<"D", "5">>}

\* the corruption signature of a response: too long, a backtick, a NUL byte
Corrupt(text) == Len(text) > 15 \/ HasChar(text, BackTick) \/ HasChar(text, NUL)

HasIndicator(text, letter) ==
    \E ind \in {<<"O", "V", "E", "R">>, <<letter, ".">>, <<letter, "_">>} :
        Contains(Upper(text), ind)

\* Interpret without the zero test of the 4K/50K stage channels
InterpretZeroPasses(response, letter, over, zeroFault) ==
    LET f == ParseFloat(response.text)
    IN  IF response = PyNone \/ response.text = <<>> THEN PyStr(NO_RESPONSE)
        ELSE IF Corrupt(response.text) THEN PyStr(over)
        ELSE IF f.ok THEN PyFloat(f.val)
        ELSE IF HasIndicator(response.text, letter) THEN PyStr(over)
        ELSE response

\* Interpret trying float() before it looks for the corruption signature
Interpret_parses_first(response, letter, over, zeroFault) ==
    LET f == ParseFloat(response.text)
    IN  IF response = PyNone \/ response.text = <<>> THEN PyStr(NO_RESPONSE)
        ELSE IF f.ok
             THEN IF f.val = 0 /\ zeroFault THEN PyStr(over) ELSE PyFloat(f.val)
        ELSE IF Corrupt(response.text) THEN PyStr(over)
        ELSE IF HasIndicator(response.text, letter) THEN PyStr(over)
        ELSE response

\* Interpret handing an absent response on as it is
Interpret_passes_none(response, letter, over, zeroFault) ==
    LET f == ParseFloat(response.text)
    IN  IF response = PyNone \/ response.text = <<>> THEN response
        ELSE IF Corrupt(response.text) THEN PyStr(over)
        ELSE IF f.ok
             THEN IF f.val = 0 /\ zeroFault THEN PyStr(over) ELSE PyFloat(f.val)
        ELSE IF HasIndicator(response.text, letter) THEN PyStr(over)
        ELSE response

\* the tail of read_resistance / read_voltage / read_temperature: a decoded
\* response turned into a float, an over-range tag or the raw text
Interpret(response, letter, over, zeroFault) ==
    LET f == ParseFloat(response.text)
    IN  IF response = PyNone \/ response.text = <<>> THEN PyStr(NO_RESPONSE)
        ELSE IF Corrupt(response.text) THEN PyStr(over)
        ELSE IF f.ok
             THEN IF f.val = 0 /\ zeroFault THEN PyStr(over) ELSE PyFloat(f.val)
        ELSE IF HasIndicator(response.text, letter) THEN PyStr(over)
        ELSE response

\* read_resistance(input_or_channel): one SRDG? query, no status query
read_resistance(ch, rd) ==
    LET id == IF Upper(ch) \in InputLetters THEN Upper(ch) ELSE ch
    IN  [sent |-> <<Cmd("SRDG?", id, <<>>)>>,
         ret |-> Interpret(send_command(rd), "R", R_OVER, FALSE)]

\* read_voltage(input_or_channel): one VRDG? query, no status query
read_voltage(ch, rd) ==
    LET id == IF Upper(ch) \in InputLetters THEN Upper(ch) ELSE ch
    IN  [sent |-> <<Cmd("VRDG?", id, <<>>)>>,
         ret |-> Interpret(send_command(rd), "V", V_OVER, FALSE)]

\* the RDGST? test of read_temperature: the status response is truthy, parses
\* as an int and has bit 5 set
StatusOver(status_response) ==
    LET code == ParseInt(status_response.text)
    IN  Truthy(status_response) /\ code.ok /\ Bit5(code.val)

\* read_temperature(input_or_channel); st and rd are what the RDGST? and the
\* reading query meet on the line
read_temperature(ch, st, rd) ==
    IF Upper(ch) \in {<<"A">>, <<"C">>}
    THEN read_resistance(ch, rd)
    ELSE LET id == IF Upper(ch) \in InputLetters
                   THEN (IF Upper(ch) = <<"D">> THEN <<"4">> ELSE Upper(ch))
                   ELSE ch
             status == Cmd("RDGST?", id, <<>>)
         IN  IF StatusOver(send_command(st))
             THEN [sent |-> <<status>>, ret |-> PyStr(T_OVER)]
             ELSE [sent |-> <<status, Cmd("KRDG?", id, <<>>)>>,
                   ret |-> Interpret(send_command(rd), "T", T_OVER,
                                     Upper(id) \in ZeroIsFault)]

\* GL7Controller.read_temperature(input_channel): KRDG? on the mapped channel
\* number, no status query; the raw response (or None) when it is no float
gl7_channel(ch) ==
    CASE Upper(ch) = <<"A">> -> <<"1">> [] Upper(ch) = <<"B">> -> <<"2">>
      [] Upper(ch) = <<"C">> -> <<"3">> [] Upper(ch) = <<"D">> -> <<"4">>
      [] OTHER -> <<>>

gl7_read_temperature(ch, rd) ==
    LET n == gl7_channel(ch)
        response == send_command(rd)
        f == ParseFloat(response.text)
    IN  IF n = <<>> THEN [sent |-> <<>>, ret |-> PyNone]
        ELSE [sent |-> <<Cmd("KRDG?", n, <<>>)>>,
              ret |-> IF Truthy(response) /\ response.text # T_OVER /\ f.ok
                      THEN PyFloat(f.val)
                      ELSE response]

-----------------------------------------------------------------------------
(* Calibration: head3_calibration.py, head4_calibration.py,                  *)
(* pump_calibration.py.  A table is a sequence of [raw, temp] samples sorted *)
(* ascending by raw value, in hundredths of an ohm / volt / kelvin.          *)

Sample(raw, temp) == [raw |-> raw, temp |-> temp]

Head3Table == <<Sample(105000, 400), Sample(110000, 1000), Sample(500000, 30000)>>
Head4Table == <<Sample(105000, 400), Sample(110000, 1000), Sample(500000, 30000)>>
PumpTable == <<Sample(50, 30000), Sample(100, 5000), Sample(170, 400)>>

PyRaise == [type |-> "raise", val |-> 0, text |-> <<>>]

\* a step in place of the line: the temperature of sample a
LineAt_previous(a, b, x) == a.temp

\* the straight line through samples a and b, at x
LineAt(a, b, x) == a.temp + ((x - a.raw) * (b.temp - a.temp)) \div (b.raw - a.raw)

\* scipy interp1d(kind='linear', bounds_error=False): fill is "clamp"
\* (fill_value = the two boundary temperatures) or "extrapolate"
interp1d(tab, x, fill) ==
    LET n == Len(tab)
    IN  IF x < tab[1].raw
        THEN IF fill = "clamp" THEN tab[1].temp ELSE LineAt(tab[1], tab[2], x)
        ELSE IF x > tab[n].raw
        THEN IF fill = "clamp" THEN tab[n].temp ELSE LineAt(tab[n - 1], tab[n], x)
        ELSE LET i == CHOOSE k \in 1..(n - 1) :
                          /\ tab[k].raw <= x /\ x <= tab[k + 1].raw
                          /\ \A j \in 1..(k - 1) : ~(x <= tab[j + 1].raw)
             IN  LineAt(tab[i], tab[i + 1], x)

\* convert_3head_resistance_to_temperature: clamps outside the table, takes
\* any number
convert_3head_resistance_to_temperature(r) ==
    PyFloat(interp1d(Head3Table, r, "clamp"))

\* convert_4head_resistance_to_temperature: raises ValueError unless the
\* resistance is positive, extrapolates outside the table
convert_4head_resistance_to_temperature(r) ==
    IF r <= 0 THEN PyRaise ELSE PyFloat(interp1d(Head4Table, r, "extrapolate"))

\* convert_pump_voltage_to_temperature: extrapolates outside the table, takes
\* any number
convert_pump_voltage_to_temperature(v) ==
    PyFloat(interp1d(PumpTable, v, "extrapolate"))

-----------------------------------------------------------------------------
(* Read-then-calibrate paths *)

\* held is the value a step holds against its threshold, met the outcome
NoCal ==
    [path |-> "none", invoked |-> FALSE, arg |-> 0, out |-> PyNone,
     held |-> PyNone, met |-> FALSE]
Cal(path, invoked, arg, out) ==
    [path |-> path, invoked |-> invoked, arg |-> arg, out |-> out,
     held |-> PyNone, met |-> FALSE]

\* gl7 steps, heads and 3-pump: the table is applied to a positive float,
\* anything else becomes None ("Unable to read sensor")
StepCalibrate(path, r) ==
    IF IsFloat(r) /\ r.val > 0
    THEN Cal(path, TRUE, r.val,
             CASE path = "step_head3" -> convert_3head_resistance_to_temperature(r.val)
               [] path = "step_head4" -> convert_4head_resistance_to_temperature(r.val)
               [] path = "step6_3pump" -> convert_pump_voltage_to_temperature(r.val))
    ELSE Cal(path, FALSE, 0, PyNone)

\* gl7 steps, heads: what the step prints for the head after the
\* conversion, the temperature or, for None, "Unable to read sensor"
print_head(cal) ==
    IF cal.out # PyNone THEN cal.out
    ELSE PyStr(<<"U", "n", "a", "b", "l", "e", " ", "t", "o", " ",
                 "r", "e", "a", "d", " ", "s", "e", "n", "s", "o", "r">>)

\* the thresholds of the head checks, in hundredths of a kelvin
HeadLimit(step) == IF step = "5" THEN 200 ELSE 400

\* the head check of steps 3, 4 and 5 on what read_temperature returned:
\* step 3 converts the reading and tests "is not None and <= 4.0" on the
\* result; steps 4 and 5 test "isinstance(reading, float)" and "<= 4.0"
\* ("<= 2.0") on the reading itself
StepAssess(step, ch, r) ==
    IF step = "3"
    THEN LET cal == StepCalibrate(IF ch = <<"A">> THEN "step_head3"
                                  ELSE "step_head4", r)
         IN  [cal EXCEPT !.held = cal.out,
                         !.met = IsFloat(cal.out) /\ cal.out.val <= HeadLimit(step)]
    ELSE [Cal("none", FALSE, 0, PyNone) EXCEPT
            !.held = r, !.met = IsFloat(r) /\ r.val <= HeadLimit(step)]

\* step 6, 4-pump: the raw VRDG? response is parsed in place and every float
\* is converted
Step6Pump4Calibrate(response) ==
    LET f == ParseFloat(response.text)
    IN  IF Truthy(response) /\ response.text # V_OVER /\ f.ok
        THEN Cal("step6_4pump", TRUE, f.val,
                 convert_pump_voltage_to_temperature(f.val))
        ELSE Cal("step6_4pump", FALSE, 0, PyNone)

\* GUI query_temperatures, input A: every float is converted; anything else is
\* shown as it is
GuiCalibrateA(r) ==
    IF IsFloat(r)
    THEN Cal("gui_A", TRUE, r.val, convert_3head_resistance_to_temperature(r.val))
    ELSE Cal("gui_A", FALSE, 0, r)

\* GUI query_temperatures, input C: 34.56 ohm is added to every float before
\* it is converted; anything else is shown as it is
GuiCalibrateC(r) ==
    IF IsFloat(r)
    THEN Cal("gui_C", TRUE, r.val + 3456,
             convert_4head_resistance_to_temperature(r.val + 3456))
    ELSE Cal("gui_C", FALSE, 0, r)

-----------------------------------------------------------------------------
(* The instrument's actuators.  Heater outputs 1 (4-pump) and 2 (3-pump):    *)
(* control mode and manual output in percent.  Analog outputs 3 (4-switch)   *)
(* and 4 (3-switch): heat switch driven to 5 V (ON) or 0 V (OFF).            *)

Heaters == {1, 2}
Switches == {3, 4}

OutText(o) ==
    CASE o = 0 -> <<"0">> [] o = 1 -> <<"1">> [] o = 2 -> <<"2">>
      [] o = 3 -> <<"3">> [] o = 4 -> <<"4">>

OutNum(t) == CHOOSE o \in 0..4 : OutText(o) = t

\* an instrument on which MOUT adds to the manual output
Apply_adds(i, c) ==
    LET o == OutNum(c.target)
    IN  CASE c.verb = "OUTMODE" /\ o \in Heaters ->
                [i EXCEPT !.mode[o] = c.args[1]]
          [] c.verb = "MOUT" /\ o \in Heaters /\ c.args[1] >= 0 /\ c.args[1] <= 100 ->
                [i EXCEPT !.mout[o] = IF @ + c.args[1] > 100 THEN 100 ELSE @ + c.args[1]]
          [] c.verb = "ANALOG" /\ o \in Switches ->
                [i EXCEPT !.analog[o] =
                    IF Len(c.args) >= 3 /\ c.args[1] = 1 /\ c.args[3] = 500
                    THEN "ON" ELSE "OFF"]
          [] OTHER -> i

\* the effect of one command line that reached the instrument: OUTMODE sets
\* the mode, MOUT the manual output (0-100 %, anything else is refused),
\* ANALOG the switch voltage; a query changes nothing
Apply(i, c) ==
    LET o == OutNum(c.target)
    IN  CASE c.verb = "OUTMODE" /\ o \in Heaters ->
                [i EXCEPT !.mode[o] = c.args[1]]
          [] c.verb = "MOUT" /\ o \in Heaters /\ c.args[1] >= 0 /\ c.args[1] <= 100 ->
                [i EXCEPT !.mout[o] = c.args[1]]
          [] c.verb = "ANALOG" /\ o \in Switches ->
                [i EXCEPT !.analog[o] =
                    IF Len(c.args) >= 3 /\ c.args[1] = 1 /\ c.args[3] = 500
                    THEN "ON" ELSE "OFF"]
          [] OTHER -> i

\* a command handed to send_command, and whether the write went out
Sent(c, ok) == [cmd |-> c, ok |-> ok]

RECURSIVE DeliverAll(_, _)
DeliverAll(i, sent) ==
    IF sent = <<>> THEN i
    ELSE DeliverAll(IF Head(sent).ok THEN Apply(i, Head(sent).cmd) ELSE i,
                    Tail(sent))

Cmds(sent) == [k \in 1..Len(sent) |-> sent[k].cmd]

-----------------------------------------------------------------------------
(* Heater control: lakeshore350/heaters.py, outputs.py,                      *)
(* emergency_heater_stop.py.  w, w1, w2 tell whether each write goes out;    *)
(* send_command swallows a failed write and a set command has no reply, so   *)
(* the caller sees None either way.                                          *)

OpenLoop == 3

OUTMODE(o, mode) == Cmd("OUTMODE", OutText(o), <<mode, 0, 0>>)
MOUT(o, percent) == Cmd("MOUT", OutText(o), <<percent>>)
ANALOG_ON(s) == Cmd("ANALOG", OutText(s), <<1, 1, 500, 0, 0>>)
ANALOG_OFF(s) == Cmd("ANALOG", OutText(s), <<0>>)

\* a setter that sends a command line again when its write has failed
set_heater_mode_and_power_again(o, p, w1, w2) ==
    [sent |-> (IF w1 THEN <<Sent(OUTMODE(o, OpenLoop), w1)>>
               ELSE <<Sent(OUTMODE(o, OpenLoop), w1), Sent(OUTMODE(o, OpenLoop), TRUE)>>)
              \o (IF w2 THEN <<Sent(MOUT(o, p), w2)>>
                  ELSE <<Sent(MOUT(o, p), w2), Sent(MOUT(o, p), TRUE)>>),
     ret |-> "True"]

\* HeaterController.set_heater_mode_and_power(output_num, power_percent)
set_heater_mode_and_power(o, p, w1, w2) ==
    [sent |-> <<Sent(OUTMODE(o, OpenLoop), w1), Sent(MOUT(o, p), w2)>>,
     ret |-> "True"]

\* turn_off_heater written as a call of set_heater_mode_and_power(o, 0)
turn_off_heater_sets_mode(o, w) ==
    [sent |-> set_heater_mode_and_power(o, 0, w, w).sent, ret |-> "True"]

\* HeaterController.turn_off_heater(output_num)
turn_off_heater(o, w) ==
    [sent |-> <<Sent(MOUT(o, 0), w)>>, ret |-> "True"]

\* query_heater_output_status(output_num): OUTMODE? then MOUT?
query_heater_output_status(o, w) ==
    [sent |-> <<Sent(Cmd("OUTMODE?", OutText(o), <<>>), w),
                Sent(Cmd("MOUT?", OutText(o), <<>>), w)>>]

\* a status overview that zeroes both manual outputs before it asks
query_all_heaters_zeroes(w) ==
    [sent |-> <<Sent(MOUT(1, 0), w), Sent(MOUT(2, 0), w)>>
              \o query_heater_output_status(1, w).sent
              \o query_heater_output_status(2, w).sent]

\* HeaterController.query_all_heaters: both heaters, output 1 first
query_all_heaters(w) ==
    [sent |-> query_heater_output_status(1, w).sent
              \o query_heater_output_status(2, w).sent]

\* the status read as in the initial status check of the steps: an absent
\* level counts as 0.0
query_heater_status_or_zero(o, ml, ll) ==
    LET mode == send_command(ml)
        output == send_command(ll)
        keep(num) == IF ~Truthy(output) THEN PyFloat(0)
                     ELSE IF num.ok THEN PyFloat(num.val) ELSE output
    IN  [sent |-> <<Sent(Cmd("OUTMODE?", OutText(o), <<>>), ml.writeOk),
                    Sent(Cmd("MOUT?", OutText(o), <<>>), ll.writeOk)>>,
         mode |-> mode, level |-> keep(ParseFloat(output.text)),
         ret |-> "tuple"]

\* HeaterController.query_heater_status(output_num): the two replies of
\* query_heater_output_status; float(output) when output is a non-empty
\* text other than NO_RESPONSE, output itself when float() raises
query_heater_status(o, ml, ll) ==
    LET mode == send_command(ml)
        output == send_command(ll)
        keep(num) == IF Truthy(output) /\ output.text # NO_RESPONSE
                     THEN IF num.ok THEN PyFloat(num.val) ELSE output
                     ELSE output
    IN  [sent |-> <<Sent(Cmd("OUTMODE?", OutText(o), <<>>), ml.writeOk),
                    Sent(Cmd("MOUT?", OutText(o), <<>>), ll.writeOk)>>,
         mode |-> mode, level |-> keep(ParseFloat(output.text)),
         ret |-> "tuple"]

\* query_heaters.HeaterController.query_relay_heater(relay_num): RELAY? then
\* RELAYST?; the parse errors of both replies are passed over
query_relay_heater(n, w1, w2) ==
    [sent |-> <<Sent(Cmd("RELAY?", OutText(n), <<>>), w1),
                Sent(Cmd("RELAYST?", OutText(n), <<>>), w2)>>,
     ret |-> "dict"]

\* query_heaters.HeaterController.query_analog_heater(output_num)
query_analog_heater(n, w) ==
    [sent |-> <<Sent(Cmd("ANALOG?", OutText(n), <<>>), w)>>, ret |-> "dict"]

And(a, b) == IF a = "True" /\ b = "True" THEN "True" ELSE "False"

\* emergency_stop_all_heaters giving up at the first write that fails
emergency_stop_gives_up(w1, w2, wq) ==
    LET first == turn_off_heater(1, w1)
        second == turn_off_heater(2, w2)
    IN  IF w1
        THEN [sent |-> first.sent \o second.sent \o query_all_heaters(wq).sent,
              ret |-> And(first.ret, second.ret)]
        ELSE [sent |-> first.sent, ret |-> "False"]

\* HeaterController.emergency_stop_all_heaters: turn_off_heater(1),
\* turn_off_heater(2), the status confirmation, all(success_list)
emergency_stop_all_heaters(w1, w2, wq) ==
    LET first == turn_off_heater(1, w1)
        second == turn_off_heater(2, w2)
    IN  [sent |-> first.sent \o second.sent \o query_all_heaters(wq).sent,
         ret |-> And(first.ret, second.ret)]

\* emergency_heater_stop.emergency_shutdown: MOUT 1,0.0 and MOUT 2,0.0, each
\* in its own try block; returns nothing
emergency_shutdown(w1, w2) ==
    [sent |-> <<Sent(MOUT(1, 0), w1), Sent(MOUT(2, 0), w2)>>, ret |-> "None"]

\* OutputController.set_outputs(output_num, percent): validates both
\* arguments, then writes MOUT to the port itself (a failed write raises)
set_outputs(o, p, w) ==
    IF o \notin {1, 2, 3, 4} THEN [sent |-> <<>>, ret |-> "None"]
    ELSE IF ~(0 <= p /\ p <= 100) THEN [sent |-> <<>>, ret |-> "None"]
    ELSE [sent |-> <<Sent(MOUT(o, p), w)>>,
          ret |-> IF w THEN "None" ELSE "raise"]

-----------------------------------------------------------------------------
(* Heat switches: lakeshore350/switches.py *)

\* SwitchController.turn_on_switch(switch_num)
turn_on_switch(sw, w) == [sent |-> <<Sent(ANALOG_ON(sw), w)>>, ret |-> "True"]

\* SwitchController.turn_off_switch(switch_num)
turn_off_switch(sw, w) == [sent |-> <<Sent(ANALOG_OFF(sw), w)>>, ret |-> "True"]

\* a set_switch_state that takes every other state for OFF
set_switch_state_else_off(sw, state, w) ==
    IF Upper(state) = <<"O", "N">> THEN turn_on_switch(sw, w)
    ELSE turn_off_switch(sw, w)

\* SwitchController.set_switch_state(switch_num, state): "ON" and "OFF" in
\* any case go to turn_on_switch / turn_off_switch, any other text is an
\* error printed, nothing sent, False returned
set_switch_state(sw, state, w) ==
    IF Upper(state) = <<"O", "N">> THEN turn_on_switch(sw, w)
    ELSE IF Upper(state) = <<"O", "F", "F">> THEN turn_off_switch(sw, w)
    ELSE [sent |-> <<>>, ret |-> "False"]

-----------------------------------------------------------------------------
(* What the line can carry *)

Eol(text) == text \o <<CR, LF>>

\* replies to RDGST?: status codes with and without bit 5, a code in another
\* number format, garbage, a bare terminator, a read timeout (<<>>)
StatusLines ==
    { Eol(<<"0">>), Eol(<<"1">>), Eol(<<"3", "2">>), Eol(<<"3", "3">>),
      Eol(<<"0", "9", "6">>), Eol(<<"1", "6", "0">>), Eol(<<"1", "2", "8">>),
      Eol(<<"3", "2", ".", "0">>), Eol(<<"3", "x">>), Eol(<<>>), <<>> }

\* replies to KRDG? / SRDG? / VRDG?
ReadingLines ==
    { Eol(<<"1", "2", ".", "3">>), Eol(<<"+", "1", "0", "7", "5", ".", "0">>),
      Eol(<<"0", ".", "0">>), Eol(<<"-", "0", ".", "0", "0">>), Eol(<<"0">>),
      Eol(<<"-", "5", ".", "0">>), Eol(<<"0", ".", "0", "1">>),
      Eol(T_OVER), Eol(R_OVER), Eol(V_OVER), Eol(<<"o", "v", "e", "r">>),
      Eol(<<"E", "R", "R">>),
      Eol(<<BackTick, "1", "2">>), Eol(<<"1", NUL, "2">>),
      Eol(<<"0", "0", "0", "0", "0", "0", "0", "0", "0", "0",
            "0", "1", "2", ".", "3", "0">>),
      Eol(<<>>), <<>> }

\* a round trip: the write raised, or it went out and a line (or none) came back
LinksOver(lines) == {Link(FALSE, <<>>)} \cup {Link(TRUE, l) : l \in lines}

StatusLinks == LinksOver(StatusLines)
ReadingLinks == LinksOver(ReadingLines)

Channels ==
    { <<"A">>, <<"B">>, <<"C">>, <<"D">>, <<"a">>, <<"c">>,
      <<"D", "2">>, <<"D", "3">>, <<"D", "4">>, <<"D", "5">>, <<"d", "3">>,
      <<"2">>, <<"5">> }

-----------------------------------------------------------------------------
(* Initial state *)

NoLink == Link(FALSE, <<>>)

InstInits ==
    { [mode |-> m, mout |-> [o \in Heaters |-> 0], analog |-> a] :
        m \in [Heaters -> {0, OpenLoop}], a \in [Switches -> {"ON", "OFF"}] }

InitCall ==
    [op |-> "none", out |-> 0, pct |-> 0, state |-> <<>>, sent |-> <<>>,
     ret |-> "None", links |-> <<>>, mode |-> PyNone, level |-> PyNone]

Call(op, o, p, res) ==
    [op |-> op, out |-> o, pct |-> p, state |-> <<>>, sent |-> res.sent,
     ret |-> res.ret, links |-> <<>>, mode |-> PyNone, level |-> PyNone]

InitReading ==
    [op |-> "none", ch |-> <<>>, st |-> NoLink, rd |-> NoLink,
     sent |-> <<>>, ret |-> PyNone, cal |-> NoCal]

Read(op, ch, st, rd, res, cal) ==
    [op |-> op, ch |-> ch, st |-> st, rd |-> rd,
     sent |-> res.sent, ret |-> res.ret, cal |-> cal]

-----------------------------------------------------------------------------
(* Reading actions.  A request (channel, what the status query and the       *)
(* reading query meet on the line) is drawn in the initial state; each       *)
(* action is one call of the pipeline on it.                                 *)

Requests ==
    { [op |-> "none", ch |-> ch, st |-> st, rd |-> rd,
       sent |-> <<>>, ret |-> PyNone, cal |-> NoCal] :
        ch \in Channels, st \in StatusLinks, rd \in ReadingLinks }

Pending == reading.op = "none" /\ reading.ch # <<>>

Answer(op, res, cal) ==
    /\ reading' = Read(op, reading.ch, reading.st, reading.rd, res, cal)
    /\ UNCHANGED <<inst, call, run, table, port>>

ReadTemperature ==
    /\ Pending
    /\ Answer("read_temperature",
              read_temperature(reading.ch, reading.st, reading.rd), NoCal)

ReadResistance ==
    /\ Pending
    /\ Answer("read_resistance", read_resistance(reading.ch, reading.rd), NoCal)

ReadVoltage ==
    /\ Pending
    /\ Answer("read_voltage", read_voltage(reading.ch, reading.rd), NoCal)

\* a head read and calibrated the way the GL7 steps do it; the step's
\* controller reads through TemperatureReader.read_temperature or through
\* GL7Controller.read_temperature
StepReadHead ==
    /\ Pending
    /\ reading.ch \in {<<"A">>, <<"C">>}
    /\ \E reader \in {"TemperatureReader", "GL7Controller"} :
        LET res == IF reader = "TemperatureReader"
                   THEN read_temperature(reading.ch, reading.st, reading.rd)
                   ELSE gl7_read_temperature(reading.ch, reading.rd)
        IN  Answer("step_head", res,
                   IF reading.ch = <<"A">>
                   THEN StepCalibrate("step_head3", res.ret)
                   ELSE StepCalibrate("step_head4", res.ret))

\* steps 3, 4 and 5: one head is read and held against the step's threshold
\* (step 5 tests the 3He head only)
StepAssessHead ==
    /\ Pending
    /\ reading.ch \in {<<"A">>, <<"C">>}
    /\ \E step \in {"3", "4", "5"}, reader \in {"TemperatureReader", "GL7Controller"} :
        /\ step = "5" => reading.ch = <<"A">>
        /\ LET res == IF reader = "TemperatureReader"
                      THEN read_temperature(reading.ch, reading.st, reading.rd)
                      ELSE gl7_read_temperature(reading.ch, reading.rd)
           IN  Answer(CASE step = "3" -> "step3_check" [] step = "4" -> "step4_check"
                        [] step = "5" -> "step5_check",
                      res, StepAssess(step, reading.ch, res.ret))

\* step 6, 3-pump: read_voltage('D') then the pump table
Step6ReadPump3 ==
    /\ Pending
    /\ reading.ch = <<"D">>
    /\ LET res == read_voltage(<<"D">>, reading.rd)
       IN  Answer("step6_3pump", res,
                  StepCalibrate("step6_3pump", res.ret))

\* step 6, 4-pump: send_command("VRDG? 5") parsed in place
Step6ReadPump4 ==
    /\ Pending
    /\ reading.ch = <<"5">>
    /\ LET response == send_command(reading.rd)
       IN  Answer("step6_4pump",
                  [sent |-> <<Cmd("VRDG?", <<"5">>, <<>>)>>, ret |-> response],
                  Step6Pump4Calibrate(response))

\* GUI query_temperatures, inputs A and C
GuiReadHead ==
    /\ Pending
    /\ reading.ch \in {<<"A">>, <<"C">>}
    /\ LET res == read_temperature(reading.ch, reading.st, reading.rd)
       IN  Answer("gui_head", res,
                  IF reading.ch = <<"A">> THEN GuiCalibrateA(res.ret)
                  ELSE GuiCalibrateC(res.ret))

\* the call has returned, whatever it returned, and the reader is as it was
\* (send_command keeps every serial exception to itself and nothing closes
\* the port): the same read can be asked again
ReadAgain ==
    /\ reading.op # "none"
    /\ reading' = [reading EXCEPT !.op = "none", !.sent = <<>>,
                                  !.ret = PyNone, !.cal = NoCal]
    /\ UNCHANGED <<inst, call, run, table, port>>

-----------------------------------------------------------------------------
(* Actuator actions: one call of a controller method (CLI, script, GUI) *)

\* percentages handed to the setters: the ends of the range, inside, outside
PercentArgs == {0 - 1, 0, 50, 100, 101}

SetHeaterModeAndPower ==
    \E o \in Heaters, p \in PercentArgs, w1 \in BOOLEAN, w2 \in BOOLEAN :
        LET res == set_heater_mode_and_power(o, p, w1, w2)
        IN  /\ call' = Call("set_heater_mode_and_power", o, p, res)
            /\ inst' = DeliverAll(inst, res.sent)
            /\ UNCHANGED <<reading, run, table, port>>

TurnOffHeater ==
    \E o \in Heaters, w \in BOOLEAN :
        LET res == turn_off_heater(o, w)
        IN  /\ call' = Call("turn_off_heater", o, 0, res)
            /\ inst' = DeliverAll(inst, res.sent)
            /\ UNCHANGED <<reading, run, table, port>>

EmergencyStopAllHeaters ==
    \E w1 \in BOOLEAN, w2 \in BOOLEAN, wq \in BOOLEAN :
        LET res == emergency_stop_all_heaters(w1, w2, wq)
        IN  /\ call' = Call("emergency_stop_all_heaters", 0, 0, res)
            /\ inst' = DeliverAll(inst, res.sent)
            /\ UNCHANGED <<reading, run, table, port>>

EmergencyShutdown ==
    \E w1 \in BOOLEAN, w2 \in BOOLEAN :
        LET res == emergency_shutdown(w1, w2)
        IN  /\ call' = Call("emergency_shutdown", 0, 0, res)
            /\ inst' = DeliverAll(inst, res.sent)
            /\ UNCHANGED <<reading, run, table, port>>

SetOutputs ==
    \E o \in 0..2, p \in PercentArgs, w \in BOOLEAN :
        LET res == set_outputs(o, p, w)
        IN  /\ call' = Call("set_outputs", o, p, res)
            /\ inst' = DeliverAll(inst, res.sent)
            /\ UNCHANGED <<reading, run, table, port>>

TurnOnSwitch ==
    \E sw \in Switches, w \in BOOLEAN :
        LET res == turn_on_switch(sw, w)
        IN  /\ call' = Call("turn_on_switch", sw, 0, res)
            /\ inst' = DeliverAll(inst, res.sent)
            /\ UNCHANGED <<reading, run, table, port>>

TurnOffSwitch ==
    \E sw \in Switches, w \in BOOLEAN :
        LET res == turn_off_switch(sw, w)
        IN  /\ call' = Call("turn_off_switch", sw, 0, res)
            /\ inst' = DeliverAll(inst, res.sent)
            /\ UNCHANGED <<reading, run, table, port>>

\* the states handed to set_switch_state: ON and OFF in several cases, other
\* words, the empty text
SwitchStates ==
    { <<"O", "N">>, <<"o", "n">>, <<"O", "F", "F">>, <<"O", "f", "f">>,
      <<"H", "A", "L", "F">>, <<"o">>, <<"1">>, <<>> }

SetSwitchState ==
    \E sw \in Switches, state \in SwitchStates, w \in BOOLEAN :
        LET res == set_switch_state(sw, state, w)
        IN  /\ call' = [Call("set_switch_state", sw, 0, res) EXCEPT !.state = state]
            /\ inst' = DeliverAll(inst, res.sent)
            /\ UNCHANGED <<reading, run, table, port>>

\* what OUTMODE? and MOUT? are answered with: a configuration, a level with
\* and without fraction, an error word, the NO_RESPONSE text, a blank line,
\* nothing before the timeout
ModeLines == { Eol(<<"3", ",", "0", ",", "0">>), <<>> }
LevelLines ==
    { Eol(<<"7", "5", ".", "0">>), Eol(<<"0">>), Eol(<<"+", "5", "0", ".", "0", "0">>),
      Eol(<<"E", "R", "R">>), Eol(NO_RESPONSE), Eol(<<>>), <<>> }

QueryHeaterStatus ==
    \E o \in Heaters, ml \in LinksOver(ModeLines), ll \in LinksOver(LevelLines) :
        LET res == query_heater_status(o, ml, ll)
        IN  /\ call' = [Call("query_heater_status", o, 0, res)
                          EXCEPT !.links = <<ml, ll>>, !.mode = res.mode,
                                 !.level = res.level]
            /\ inst' = DeliverAll(inst, res.sent)
            /\ UNCHANGED <<reading, run, table, port>>

QueryAllHeaters ==
    \E w \in BOOLEAN :
        LET res == [sent |-> query_all_heaters(w).sent, ret |-> "dict"]
        IN  /\ call' = Call("query_all_heaters", 0, 0, res)
            /\ inst' = DeliverAll(inst, res.sent)
            /\ UNCHANGED <<reading, run, table, port>>

QueryRelayHeater ==
    \E n \in Heaters, w1 \in BOOLEAN, w2 \in BOOLEAN :
        LET res == query_relay_heater(n, w1, w2)
        IN  /\ call' = Call("query_relay_heater", n, 0, res)
            /\ inst' = DeliverAll(inst, res.sent)
            /\ UNCHANGED <<reading, run, table, port>>

QueryAnalogHeater ==
    \E n \in Switches, w \in BOOLEAN :
        LET res == query_analog_heater(n, w)
        IN  /\ call' = Call("query_analog_heater", n, 0, res)
            /\ inst' = DeliverAll(inst, res.sent)
            /\ UNCHANGED <<reading, run, table, port>>

\* replies to RDGST? that end the read and that let it go on to KRDG?
ProbeLinks == LinksOver({ Eol(<<"0">>), Eol(<<"3", "2">>) })

\* one read_temperature call with every command line reaching the instrument
QueryTemperature ==
    \E ch \in Channels, st \in ProbeLinks :
        LET res == read_temperature(ch, st, Link(TRUE, Eol(<<"1", "2", ".", "3">>)))
            out == [sent |-> [k \in 1..Len(res.sent) |-> Sent(res.sent[k], TRUE)],
                    ret |-> "value"]
        IN  /\ call' = Call("read_temperature", 0, 0, out)
            /\ inst' = DeliverAll(inst, out.sent)
            /\ UNCHANGED <<reading, run, table, port>>

-----------------------------------------------------------------------------
(* The GL7 run.  main.py executes the steps its flags name, in a fixed       *)
(* order, each inside its own KeyboardInterrupt handler; a step is a         *)
(* straight line of operator confirmations (input), power prompts and        *)
(* command lines.  --start-gl7 is one such step, the whole of                *)
(* GL7Controller.start_gl7_sequence; --start-gl7-test-sequence calls the     *)
(* seven test steps inside one KeyboardInterrupt handler.                    *)

\* main.py: the steps of --start-gl7-test-sequence in the order of the calls
TestSequence ==
    <<"1_test", "2a_test", "2b_test", "3_test", "4_test", "5_test", "6_test">>

StepOrder ==
    <<"start_gl7", "1", "2a", "2b", "3", "4", "5", "6", "7">> \o TestSequence

Confirm(gate) == [k |-> "confirm", gate |-> gate, o |-> 0, cmds |-> <<>>]
Prompt(o) == [k |-> "prompt", gate |-> "", o |-> o, cmds |-> <<>>]
Send(cmds) == [k |-> "send", gate |-> "", o |-> 0, cmds |-> cmds]
StartHeater(o) == [k |-> "heater", gate |-> "", o |-> o, cmds |-> <<>>]

\* a temperature check repeated at most budget times: the query lines of one
\* check, the positions among them of the readings held against the limit
\* (hundredths of a kelvin), and the number of checks
Poll(cmds, gauges, limit, budget) ==
    [k |-> "poll", gate |-> "", o |-> 0, cmds |-> cmds, gauges |-> gauges,
     limit |-> limit, budget |-> budget]

\* a block that prints "Command would be: ..." and sends nothing
Would(cmds) == [k |-> "would", gate |-> "", o |-> 0, cmds |-> cmds]

RELAY(o, on) == Cmd("RELAY", OutText(o), <<on>>)

Krdg(n) == Cmd("KRDG?", n, <<>>)

\* the command lines of a block of gl7_controller.read_temperature calls on
\* the sensor inputs
ReadBlock(chs) == [k \in 1..Len(chs) |-> Krdg(gl7_channel(chs[k]))]
AnalogStatus(o) == Cmd("ANALOG?", OutText(o), <<>>)
HeaterStatus(o) == Cmds(query_heater_output_status(o, TRUE).sent)

\* gl7/step1_initial_status.py: readings, heater status, switch status
execute_step1 ==
    << Send(ReadBlock(<<<<"A">>, <<"C">>, <<"B">>, <<"D">>>>) \o <<Krdg(<<"5">>)>>),
       Send(HeaterStatus(1) \o HeaterStatus(2)),
       Send(<<AnalogStatus(3), AnalogStatus(4)>>) >>

\* the Initial Status stage run as a whole: every command line of
\* execute_step1 in order, each reaching the instrument
RECURSIVE Lines(_)
Lines(blocks) ==
    IF blocks = <<>> THEN <<>> ELSE Head(blocks).cmds \o Lines(Tail(blocks))

InitialStatus ==
    LET cmds == Lines(execute_step1)
        res == [sent |-> [k \in 1..Len(cmds) |-> Sent(cmds[k], TRUE)],
                ret |-> "True"]
    IN  /\ call' = Call("execute_step1", 0, 0, res)
        /\ inst' = DeliverAll(inst, res.sent)
        /\ UNCHANGED <<reading, run, table, port>>

\* step 2a asking for the ENTER after the switch command instead of before it
execute_step2a_asks_late ==
    << Send(<<ANALOG_ON(3)>>),
       Confirm("turn ON 4-switch"),
       Send(<<ANALOG_ON(4)>>),
       Confirm("turn ON 3-switch"),
       Send(ReadBlock(<<<<"A">>, <<"C">>, <<"D">>>>) \o <<Krdg(<<"5">>)>>) >>

\* gl7/step2a_precooling.py
execute_step2a ==
    << Confirm("turn ON 4-switch"),
       Send(<<ANALOG_ON(3)>>),
       Confirm("turn ON 3-switch"),
       Send(<<ANALOG_ON(4)>>),
       Send(ReadBlock(<<<<"A">>, <<"C">>, <<"D">>>>) \o <<Krdg(<<"5">>)>>) >>

\* gl7/step2b_heat_switch_verification.py
execute_step2b ==
    << Send(ReadBlock(<<<<"A">>, <<"C">>, <<"D">>>>)),
       Confirm("turn OFF 4-switch"),
       Send(Cmds(turn_off_switch(3, TRUE).sent)),
       Confirm("turn OFF 3-switch"),
       Send(Cmds(turn_off_switch(4, TRUE).sent)),
       Send(<<AnalogStatus(3), AnalogStatus(4)>>),
       Confirm("proceed to step 3") >>

\* gl7/step3_pump_heating.py
execute_step3 ==
    << Confirm("start 4-pump heater"),
       Prompt(1),
       StartHeater(1),
       Confirm("start 3-pump heater"),
       Prompt(2),
       StartHeater(2),
       Send(ReadBlock(<<<<"A">>, <<"C">>, <<"B">>, <<"D">>>>)),
       Send(HeaterStatus(1) \o HeaterStatus(2)),
       Confirm("proceed to step 4") >>

\* gl7/step4_4he_pump_transition.py: one check of both heads against 4 K,
\* then the transition block, whose RELAY and ANALOG lines are commented out
execute_step4 ==
    << Poll(ReadBlock(<<<<"A">>, <<"C">>>>) \o <<Krdg(<<"2">>), Krdg(<<"3">>)>>,
            {1, 2}, 400, 1),
       Would(<<RELAY(1, 0), ANALOG_ON(3)>>) >>

max_checks == 3

\* gl7/step5_3he_pump_transition.py: up to max_checks checks of the 3He head
\* and the 4K stage against 2 K, then the transition block, whose RELAY and
\* ANALOG lines are commented out
execute_step5 ==
    << Poll(ReadBlock(<<<<"A">>, <<"C">>>>) \o <<Krdg(<<"2">>), Krdg(<<"3">>)>>,
            {1, 3}, 200, max_checks),
       Would(<<RELAY(2, 0), ANALOG_ON(4)>>) >>

\* gl7/step6_final_cooldown.py: readings only
execute_step6 ==
    << Send(ReadBlock(<<<<"A">>, <<"C">>>>) \o <<Cmd("VRDG?", <<"D">>, <<>>)>>
            \o <<Cmd("VRDG?", <<"5">>, <<>>)>>) >>

\* gl7/step7_final_status.py: readings and switch status
execute_step7 ==
    << Send(ReadBlock(<<<<"A">>, <<"C">>>>) \o <<Krdg(<<"2">>), Krdg(<<"3">>)>>),
       Send(<<AnalogStatus(3), AnalogStatus(4)>>) >>

\* gl7/test_sequence/step1_initial_status_test.py: readings and status
execute_step1_test ==
    << Send(ReadBlock(<<<<"A">>, <<"C">>, <<"B">>>>)
            \o <<Cmd("VRDG?", <<"D">>, <<>>), Cmd("VRDG?", <<"5">>, <<>>)>>),
       Send(HeaterStatus(1) \o HeaterStatus(2)),
       Send(<<AnalogStatus(3), AnalogStatus(4)>>) >>

\* test_sequence/step2a_precooling_test.py is imported by the package and
\* called by main.py but is not among the sources: it is taken to be step 2a
\* with its two ANALOG lines commented out, as the option's help text says
execute_step2a_test ==
    << Confirm("turn ON 4-switch"),
       Would(<<ANALOG_ON(3)>>),
       Confirm("turn ON 3-switch"),
       Would(<<ANALOG_ON(4)>>),
       Send(ReadBlock(<<<<"A">>, <<"C">>, <<"D">>>>) \o <<Krdg(<<"5">>)>>) >>

\* gl7/test_sequence/step2b_heat_switch_verification_test.py
execute_step2b_test ==
    << Send(ReadBlock(<<<<"A">>, <<"C">>>>)
            \o <<Cmd("VRDG?", <<"D">>, <<>>), Cmd("VRDG?", <<"5">>, <<>>)>>),
       Confirm("turn OFF 4-switch"),
       Would(<<ANALOG_OFF(3)>>),
       Confirm("turn OFF 3-switch"),
       Would(<<ANALOG_OFF(4)>>),
       Send(<<AnalogStatus(3), AnalogStatus(4)>>),
       Confirm("proceed to step 3") >>

\* gl7/test_sequence/step3_pump_heating_test.py: the OUTMODE line and the
\* MOUT line with the typed power are commented out
execute_step3_test ==
    << Confirm("start 4-pump heater"),
       Prompt(1),
       Would(<<OUTMODE(1, OpenLoop)>>),
       Confirm("start 3-pump heater"),
       Prompt(2),
       Would(<<OUTMODE(2, OpenLoop)>>),
       Send(ReadBlock(<<<<"A">>, <<"C">>, <<"B">>>>)
            \o <<Cmd("VRDG?", <<"D">>, <<>>), Cmd("VRDG?", <<"5">>, <<>>)>>),
       Send(HeaterStatus(1) \o HeaterStatus(2)),
       Confirm("proceed to step 4") >>

\* gl7/test_sequence/step4_4he_pump_transition_test.py
execute_step4_test ==
    << Send(ReadBlock(<<<<"A">>, <<"C">>, <<"D">>>>) \o <<Krdg(<<"5">>)>>),
       Confirm("turn OFF 4-pump heater"),
       Would(<<MOUT(1, 0)>>),
       Confirm("turn ON 4-switch"),
       Would(<<ANALOG_ON(3)>>) >>

\* test step 5 with its MOUT line not commented out
execute_step5_test_sends ==
    << Send(ReadBlock(<<<<"A">>, <<"C">>, <<"D">>>>) \o <<Krdg(<<"5">>)>>),
       Confirm("turn OFF 3-pump heater"),
       Send(<<MOUT(2, 0)>>),
       Confirm("turn ON 3-switch"),
       Would(<<ANALOG_ON(4)>>) >>

\* gl7/test_sequence/step5_3he_pump_transition_test.py
execute_step5_test ==
    << Send(ReadBlock(<<<<"A">>, <<"C">>, <<"D">>>>) \o <<Krdg(<<"5">>)>>),
       Confirm("turn OFF 3-pump heater"),
       Would(<<MOUT(2, 0)>>),
       Confirm("turn ON 3-switch"),
       Would(<<ANALOG_ON(4)>>) >>

\* gl7/test_sequence/step6_final_cooldown_test.py: readings, switch status
execute_step6_test ==
    << Send(ReadBlock(<<<<"A">>, <<"C">>, <<"D">>>>) \o <<Krdg(<<"5">>)>>),
       Send(<<AnalogStatus(3), AnalogStatus(4)>>) >>

\* GL7Controller.query_relay_status for relays 1 and 2
RelayStatus ==
    << Cmd("RELAY?", <<"1">>, <<>>), Cmd("RELAYST?", <<"1">>, <<>>),
       Cmd("RELAY?", <<"2">>, <<>>), Cmd("RELAYST?", <<"2">>, <<>>) >>

\* GL7Controller.start_gl7_sequence, stage by stage: every RELAY and ANALOG
\* line is commented out; the last loop breaks under 0.5 K (strictly)
Stages ==
    << << Send(ReadBlock(<<<<"A">>, <<"B">>, <<"C">>>>)),
          Send(RelayStatus),
          Send(<<AnalogStatus(3), AnalogStatus(4)>>) >>,
       << Poll(ReadBlock(<<<<"A">>>>), {1}, 1000, 3) >>,
       << Send(ReadBlock(<<<<"A">>>>)) >>,
       << Would(<<RELAY(1, 1), RELAY(2, 1)>>),
          Poll(ReadBlock(<<<<"A">>, <<"B">>>>), {1}, 400, 5) >>,
       << Would(<<RELAY(1, 0), ANALOG_ON(3)>>) >>,
       << Poll(ReadBlock(<<<<"A">>, <<"B">>>>), {2}, 200, 3) >>,
       << Would(<<RELAY(2, 0), ANALOG_ON(4)>>) >>,
       << Poll(ReadBlock(<<<<"A">>, <<"B">>, <<"C">>>>), {3}, 49, 3) >>,
       << Send(ReadBlock(<<<<"A">>, <<"B">>, <<"C">>>>)),
          Send(RelayStatus),
          Send(<<AnalogStatus(3), AnalogStatus(4)>>) >> >>

start_gl7_sequence ==
    Stages[1] \o Stages[2] \o Stages[3] \o Stages[4] \o Stages[5]
        \o Stages[6] \o Stages[7] \o Stages[8] \o Stages[9]

Program(step) ==
    CASE step = "1" -> execute_step1 [] step = "2a" -> execute_step2a
      [] step = "2b" -> execute_step2b [] step = "3" -> execute_step3
      [] step = "4" -> execute_step4 [] step = "5" -> execute_step5
      [] step = "6" -> execute_step6 [] step = "7" -> execute_step7
      [] step = "start_gl7" -> start_gl7_sequence
      [] step = "1_test" -> execute_step1_test
      [] step = "2a_test" -> execute_step2a_test
      [] step = "2b_test" -> execute_step2b_test
      [] step = "3_test" -> execute_step3_test
      [] step = "4_test" -> execute_step4_test
      [] step = "5_test" -> execute_step5_test
      [] step = "6_test" -> execute_step6_test

StepIndex(step) == CHOOSE i \in 1..Len(StepOrder) : StepOrder[i] = step

\* main.py: the next flagged step after position i of the order, "done" after
\* the last one
FirstAfter(flags, i) ==
    LET later == {j \in (i + 1)..Len(StepOrder) : StepOrder[j] \in flags}
    IN  IF later = {} THEN "done"
        ELSE StepOrder[CHOOSE j \in later : \A k \in later : j <= k]

\* flag combinations a run is started with
FlagSets ==
    { {"3"}, {"2a", "2b"}, {"1", "4"}, {"5", "6", "7"} }

\* what the operator types at a power prompt
PowerInputs ==
    { <<"0">>, <<"5", "0">>, <<"1", "0", "0">>, <<"1", "5", "0">>,
      <<"-", "5">>, <<"a", "b", "c">>, <<>> }

\* acked, power, log, last, checks, targets, temp and said belong to the step
\* being executed: the ENTERs it has received, the powers typed into it, the
\* actuation commands it has sent, the last command line it handed to
\* send_command, the temperature checks its last monitoring loop has made,
\* the readings of the last check that were at or under the limit, what
\* each gauge read in that check, and the assessment; left tells how the
\* step before it ended; off holds, for the whole run, the heat switches
\* whose last ANALOG line handed to send_command was the OFF line
NoPower == [o \in Heaters |-> 0 - 1]

InitRun ==
    [flags |-> {}, step |-> "idle", pc |-> 1, sub |-> 0, acked |-> {},
     power |-> NoPower, log |-> <<>>, last |-> Cmd("", <<>>, <<>>), checks |-> 0,
     targets |-> {}, temp |-> <<>>,
     said |-> "", left |-> <<>>, port |-> "closed",
     off |-> {}]

StartRun(flags) ==
    [InitRun EXCEPT !.flags = flags, !.step = FirstAfter(flags, 0),
                    !.port = "open"]

Running(r) == r.step \notin {"idle", "done"}

Instr(r) == Program(r.step)[r.pc]

\* the command lines of the instruction at hand
CmdsOf(r) ==
    IF Instr(r).k = "heater"
    THEN Cmds(set_heater_mode_and_power(Instr(r).o, r.power[Instr(r).o],
                                        TRUE, TRUE).sent)
    ELSE Instr(r).cmds

InTestSequence(step) == \E k \in 1..Len(TestSequence) : TestSequence[k] = step

\* every Ctrl+C handler going on with the next call
Leave_goes_on(r, how) ==
    LET next == FirstAfter(r.flags, StepIndex(r.step))
    IN  [r EXCEPT !.step = next, !.pc = 1, !.sub = 0, !.acked = {},
                  !.power = NoPower, !.log = <<>>, !.last = Cmd("", <<>>, <<>>),
                  !.checks = 0,
                  !.targets = {}, !.temp = <<>>, !.said = "",
                  !.left = <<r.step, how>>,
                  !.port = IF next = "done" THEN "closed" ELSE @]

\* the step has returned or its KeyboardInterrupt handler has printed: main
\* goes on with the next flagged step; after the last one the port is closed.
\* The test sequence has one handler around its seven calls: a Ctrl+C in any
\* of them ends the sequence.
Leave(r, how) ==
    LET from == IF how = "aborted" /\ InTestSequence(r.step)
                THEN StepIndex(TestSequence[Len(TestSequence)])
                ELSE StepIndex(r.step)
        next == FirstAfter(r.flags, from)
    IN  [r EXCEPT !.step = next, !.pc = 1, !.sub = 0, !.acked = {},
                  !.power = NoPower, !.log = <<>>, !.last = Cmd("", <<>>, <<>>),
                  !.checks = 0,
                  !.targets = {}, !.temp = <<>>, !.said = "",
                  !.left = <<r.step, how>>,
                  !.port = IF next = "done" THEN "closed" ELSE @]

Advance(r) ==
    IF r.pc < Len(Program(r.step))
    THEN [r EXCEPT !.pc = @ + 1, !.sub = 0]
    ELSE Leave(r, "returned")

ActuationVerbs == {"ANALOG", "OUTMODE", "MOUT", "RELAY"}

\* the operator presses ENTER at an input() confirmation
RunConfirm ==
    /\ Running(run)
    /\ Instr(run).k = "confirm"
    /\ run' = Advance([run EXCEPT !.acked = @ \cup {Instr(run).gate}])
    /\ UNCHANGED <<reading, inst, call, table, port>>

\* a power prompt that takes any number typed, without the range test
RunPrompt_any_number ==
    /\ Running(run)
    /\ Instr(run).k = "prompt"
    /\ \E text \in PowerInputs :
        LET f == ParseFloat(text)
        IN  run' = IF f.ok
                   THEN Advance([run EXCEPT !.power[Instr(run).o] = f.val \div 100])
                   ELSE run
    /\ UNCHANGED <<reading, inst, call, table, port>>

\* the operator answers a power prompt; the loop asks again until the text
\* is a number in 0..100 (whole percentages are typed)
RunPrompt ==
    /\ Running(run)
    /\ Instr(run).k = "prompt"
    /\ \E text \in PowerInputs :
        LET f == ParseFloat(text)
        IN  run' = IF f.ok /\ 0 <= f.val /\ f.val <= 10000
                   THEN Advance([run EXCEPT !.power[Instr(run).o] = f.val \div 100])
                   ELSE run
    /\ UNCHANGED <<reading, inst, call, table, port>>

\* one send_command of the instruction at hand; the write goes out or not
RunSend ==
    /\ Running(run)
    /\ Instr(run).k \in {"send", "heater"}
    /\ \E ok \in BOOLEAN :
        LET line(c, n) ==
                LET r1 == [run EXCEPT
                             !.sub = @ + 1,
                             !.last = c,
                             !.log = IF c.verb \in ActuationVerbs
                                     THEN Append(@, c)
                                     ELSE @,
                             !.off = IF c.verb # "ANALOG" THEN @
                                     ELSE IF c.args[1] = 0
                                     THEN @ \cup {OutNum(c.target)}
                                     ELSE @ \ {OutNum(c.target)}]
                IN  /\ run' = IF run.sub + 1 = n THEN Advance(r1) ELSE r1
                    /\ inst' = IF ok THEN Apply(inst, c) ELSE inst
        IN  line(CmdsOf(run)[run.sub + 1], Len(CmdsOf(run)))
    /\ UNCHANGED <<reading, call, table, port>>

\* the assessment that always prints the threshold-met line
monitoring_always_confirms(r, targets) ==
    LET seen == [r EXCEPT !.sub = @ + 1, !.checks = r.sub + 1,
                          !.targets = targets,
                          !.last = Instr(r).cmds[Len(Instr(r).cmds)]]
    IN  IF targets = Instr(r).gauges THEN Advance([seen EXCEPT !.said = "met"])
        ELSE IF seen.checks < Instr(r).budget THEN seen
        ELSE Advance([seen EXCEPT !.said = "met"])

\* a monitoring loop without a count: it goes round until every gauge is at
\* or under the limit
monitoring_until_met(r, targets) ==
    LET seen == [r EXCEPT !.checks = 1, !.targets = targets,
                          !.last = Instr(r).cmds[Len(Instr(r).cmds)]]
    IN  IF targets = Instr(r).gauges THEN Advance([seen EXCEPT !.said = "met"])
        ELSE seen

\* one pass of the monitoring loop and, when the loop ends, the assessment
\* after it: break when every gauge is at or under the limit, go round again
\* while checks remain, otherwise fall out of the loop; either way the step
\* goes on to its transition block
TemperatureMonitoring(r, targets) ==
    LET seen == [r EXCEPT !.sub = @ + 1, !.checks = r.sub + 1,
                          !.targets = targets,
                          !.last = Instr(r).cmds[Len(Instr(r).cmds)]]
    IN  IF targets = Instr(r).gauges THEN Advance([seen EXCEPT !.said = "met"])
        ELSE IF seen.checks < Instr(r).budget THEN seen
        ELSE Advance([seen EXCEPT !.said = "advance"])

\* replies to the KRDG? of a monitored gauge: temperatures under, at and over
\* the limits of the steps, an over-range tag, a bare terminator
PollLines ==
    { Eol(<<"0", ".", "0", "1">>), Eol(<<"3", ".", "9">>),
      Eol(<<"3", ".", "9", "5">>), Eol(<<"4", ".", "0">>),
      Eol(<<"4", ".", "1">>), Eol(<<"1", "2", ".", "3">>),
      Eol(T_OVER), Eol(<<>>) }

\* a check that is content with one gauge at or under the limit
RunPoll_either ==
    /\ Running(run)
    /\ Instr(run).k = "poll"
    /\ \E rd \in [Instr(run).gauges -> LinksOver(PollLines)] :
        LET temp == [g \in Instr(run).gauges |->
                        gl7_read_temperature(<<"A">>, rd[g]).ret]
            targets == IF \E g \in Instr(run).gauges :
                              IsFloat(temp[g]) /\ temp[g].val <= Instr(run).limit
                       THEN Instr(run).gauges ELSE {}
        IN  run' = TemperatureMonitoring([run EXCEPT !.temp = temp], targets)
    /\ UNCHANGED <<reading, inst, call, table, port>>

\* one temperature check: the queries go out (they change nothing in the
\* instrument) and the replies of the gauges are held against the limit
RunPoll ==
    /\ Running(run)
    /\ Instr(run).k = "poll"
    /\ \E rd \in [Instr(run).gauges -> LinksOver(PollLines)] :
        LET temp == [g \in Instr(run).gauges |->
                        gl7_read_temperature(<<"A">>, rd[g]).ret]
            targets == {g \in Instr(run).gauges :
                          IsFloat(temp[g]) /\ temp[g].val <= Instr(run).limit}
        IN  run' = TemperatureMonitoring([run EXCEPT !.temp = temp], targets)
    /\ UNCHANGED <<reading, inst, call, table, port>>

\* the transition block: the command lines are printed, none is sent
RunWould ==
    /\ Running(run)
    /\ Instr(run).k = "would"
    /\ run' = Advance(run)
    /\ UNCHANGED <<reading, inst, call, table, port>>

\* Ctrl+C inside a step: main's handler prints "Step N aborted by user" and
\* nothing else
RunAbort ==
    /\ Running(run)
    /\ run' = Leave(run, "aborted")
    /\ UNCHANGED <<reading, inst, call, table, port>>

-----------------------------------------------------------------------------
(* Calibration tables: the load and the lookup of head3_calibration.py,      *)
(* head4_calibration.py, pump_calibration.py and pumps_calibration.py.  A    *)
(* source is the rows of a calibration file after its header, each row a     *)
(* sequence of text fields, temperature first.  A loaded table holds its raw *)
(* values in whole ohms (millivolts) and its temperatures in hundredths of a *)
(* kelvin.                                                                   *)

MaxRows == 3

\* the rows a source is made of: five well-formed ones, one whose fields are
\* not numbers, one with a single field and one with an empty field
RowPool ==
    { << <<"3", "0", "0">>, <<"5", "0", "0", "0">> >>,
      << <<"1", "0">>, <<"1", "1", "0", "0">> >>,
      << <<"4">>, <<"1", "0", "5", "0">> >>,
      << <<"2", "0">>, <<"1", "0", "0", "0">> >>,
      << <<"2">>, <<"2", "0", "0", "0">> >>,
      << <<"T">>, <<"R">> >>,
      << <<"4">> >>,
      << <<>>, <<"1", "0", "5", "0">> >> }

\* the rows that survive the loaders' parse, in file order: a row needs two
\* fields and float() must take both, any other row is skipped
samples(src) ==
    LET keep(num) ==
            LET valid(k) == Len(src[k]) >= 2 /\ num[k][1].ok /\ num[k][2].ok
                kept == SelectSeq([k \in 1..Len(src) |-> k], valid)
            IN  [k \in 1..Len(kept) |->
                    Sample(num[kept[k]][2].val \div 100, num[kept[k]][1].val)]
    IN  keep([k \in 1..Len(src) |-> [i \in 1..Len(src[k]) |-> ParseFloat(src[k][i])]])

\* the files: up to MaxRows rows, no raw value measured twice
Sources ==
    LET distinct(p) == \A i, j \in 1..Len(p) : p[i].raw = p[j].raw => i = j
    IN  {src \in UNION {[1..n -> RowPool] : n \in 0..MaxRows} : distinct(samples(src))}

\* no sort: the samples as given
as_given(pts) == pts

\* np.argsort / sorted(zip(...)) / the sort interp1d makes of its x: the
\* samples in ascending order of raw value
sorted_by_raw(pts) ==
    CHOOSE s \in [1..Len(pts) -> {pts[k] : k \in 1..Len(pts)}] :
        \A i, j \in 1..Len(pts) : i < j => s[i].raw < s[j].raw

\* the table slot: which module's table it is, its file, how the load ended
\* ("new" before it), the interpolator built, and the last lookup
NoTable ==
    [kind |-> "none", src |-> <<>>, out |-> "new",
     it |-> [tab |-> <<>>, how |-> "none", below |-> 0, above |-> 0],
     asked |-> FALSE, x |-> 0, ret |-> PyNone, warned |-> FALSE]

\* ThreeHeadCalibration.load_calibration_file: sorts by resistance and builds
\* interp1d with the two boundary temperatures as fill values; everything is
\* inside one try whose handler prints, so a file with no usable row leaves
\* the interpolator None and the call returns normally
load_calibration_file(src) ==
    LET build(s) ==
            IF s = <<>>
            THEN [out |-> "printed", it |-> NoTable.it]
            ELSE [out |-> "loaded",
                  it |-> [tab |-> s, how |-> "fill",
                          below |-> s[1].temp, above |-> s[Len(s)].temp]]
    IN  build(sorted_by_raw(samples(src)))

\* FourHeadCalibration / PumpCalibration._create_interpolator: ValueError
\* below two points, else sorted pairs and fill_value='extrapolate'
create_interpolator(src) ==
    LET build(p) ==
            IF Len(p) < 2
            THEN [out |-> "ValueError", it |-> NoTable.it]
            ELSE [out |-> "loaded",
                  it |-> [tab |-> sorted_by_raw(p), how |-> "extrapolate",
                          below |-> 0, above |-> 0]]
    IN  build(samples(src))

\* the table with its rows left in file order
PumpsCalibrator_as_read(src) ==
    LET build(p) ==
            IF p = <<>>
            THEN [out |-> "IndexError", it |-> NoTable.it]
            ELSE [out |-> "loaded",
                  it |-> [tab |-> p, how |-> "fill",
                          below |-> p[1].temp, above |-> p[Len(p)].temp]]
    IN  build(samples(src))

\* PumpsCalibrator.__init__: the rows go to interp1d as read (interp1d sorts
\* them); the fill values are the temperatures of the first and the last
\* row read, and indexing them raises IndexError when no row was read
PumpsCalibrator(src) ==
    LET build(p) ==
            IF p = <<>>
            THEN [out |-> "IndexError", it |-> NoTable.it]
            ELSE [out |-> "loaded",
                  it |-> [tab |-> sorted_by_raw(p), how |-> "fill",
                          below |-> p[1].temp, above |-> p[Len(p)].temp]]
    IN  build(samples(src))

\* calling the interp1d object: the fill value or the extension of the end
\* segment outside the table, the bracketing segment inside
interpolator(it, x) ==
    LET n == Len(it.tab)
    IN  IF x < it.tab[1].raw
        THEN IF it.how = "fill" THEN it.below ELSE LineAt(it.tab[1], it.tab[2], x)
        ELSE IF x > it.tab[n].raw
        THEN IF it.how = "fill" THEN it.above ELSE LineAt(it.tab[n - 1], it.tab[n], x)
        ELSE IF n = 1 THEN it.tab[1].temp
        ELSE interp1d(it.tab, x, "clamp")

\* ThreeHeadCalibration.resistance_to_temperature: None without an
\* interpolator, else the interpolator's value for any number
resistance_to_temperature(it, x) ==
    IF it.how = "none"
    THEN [ret |-> PyNone, warned |-> FALSE]
    ELSE [ret |-> PyFloat(interpolator(it, x)), warned |-> FALSE]

\* FourHeadCalibration.convert_resistance_to_temperature: ValueError for a
\* resistance that is not positive, a printed warning outside the table
convert_resistance_to_temperature(it, x) ==
    IF it.how = "none" \/ x <= 0
    THEN [ret |-> PyRaise, warned |-> FALSE]
    ELSE [ret |-> PyFloat(interpolator(it, x)),
          warned |-> x < it.tab[1].raw \/ x > it.tab[Len(it.tab)].raw]

\* PumpCalibration.convert_voltage_to_temperature: any number is taken, a
\* printed warning outside the table
convert_voltage_to_temperature(it, x) ==
    IF it.how = "none"
    THEN [ret |-> PyRaise, warned |-> FALSE]
    ELSE [ret |-> PyFloat(interpolator(it, x)),
          warned |-> x < it.tab[1].raw \/ x > it.tab[Len(it.tab)].raw]

\* pumps_calibration.voltage_to_temperature: None for a voltage that is not
\* positive, else the interpolator's value
voltage_to_temperature(it, x) ==
    IF it.how = "none" THEN [ret |-> PyRaise, warned |-> FALSE]
    ELSE IF x <= 0 THEN [ret |-> PyNone, warned |-> FALSE]
    ELSE [ret |-> PyFloat(interpolator(it, x)), warned |-> FALSE]

\* the lookup of each module
Lookup(kind, it, x) ==
    CASE kind = "head3" -> resistance_to_temperature(it, x)
      [] kind = "head4" -> convert_resistance_to_temperature(it, x)
      [] kind = "pump" -> convert_voltage_to_temperature(it, x)
      [] OTHER -> voltage_to_temperature(it, x)

\* the raw values looked up: not positive, below, on, between and above the
\* samples of RowPool
RawInputs == {0 - 5, 0, 500, 1000, 1025, 1050, 1075, 1100, 2000, 5000, 6000}

\* constructing the calibration object of the table's module
LoadTable ==
    /\ table.kind # "none"
    /\ table.out = "new"
    /\ LET done(l) == [table EXCEPT !.out = l.out, !.it = l.it]
       IN  table' = done(CASE table.kind = "head3" -> load_calibration_file(table.src)
                           [] table.kind \in {"head4", "pump"} -> create_interpolator(table.src)
                           [] OTHER -> PumpsCalibrator(table.src))
    /\ UNCHANGED <<reading, inst, call, run, port>>

\* one lookup in the constructed table
Interpolate ==
    /\ table.out # "new"
    /\ \E x \in RawInputs :
        LET done(r) == [table EXCEPT !.asked = TRUE, !.x = x,
                                     !.ret = r.ret, !.warned = r.warned]
        IN  table' = done(Lookup(table.kind, table.it, x))
    /\ UNCHANGED <<reading, inst, call, run, port>>

-----------------------------------------------------------------------------
(* The serial port.  open holds who has a connection to the port open; buf   *)
(* the reply lines waiting in the input buffer, each written as the number   *)
(* of the command it answers; late the replies the instrument has produced   *)
(* that have not reached the buffer yet; n the number of command lines       *)
(* written; got the last exchange: the command and the line handed back for  *)
(* it (0 for none).  gui is the position of the GUI's temperature query.     *)

MaxCmds == 4

NoGui == [pc |-> "idle", k |-> 0, names |-> <<>>]

NoPort ==
    [open |-> {}, buf |-> <<>>, late |-> <<>>, n |-> 0,
     got |-> [cmd |-> 0, line |-> 0], gui |-> NoGui]

\* ser.readline(): the oldest line of the input buffer, none when it is empty
\* at the timeout
ReadLine(buf) ==
    IF buf = <<>> THEN [line |-> 0, buf |-> <<>>]
    ELSE [line |-> Head(buf), buf |-> Tail(buf)]

\* TemperatureReader.send_command(command): write, sleep 0.3 s, readline.  A
\* query is answered with one line, a set command with none; the answer is in
\* the buffer by the time of the readline, or comes after the read timeout,
\* or never.  A write that raises ends the call with None.
WireSendCommand ==
    /\ port.n < MaxCmds
    /\ \E kind \in {"query", "set"}, w \in BOOLEAN,
          fate \in {"in time", "late", "lost"} :
        LET c == port.n + 1
            answered == w /\ kind = "query"
            buf1 == IF answered /\ fate = "in time"
                    THEN Append(port.buf, c) ELSE port.buf
            late1 == IF answered /\ fate = "late"
                     THEN Append(port.late, c) ELSE port.late
            rd == ReadLine(buf1)
        IN  port' = IF w
                    THEN [port EXCEPT !.n = c, !.late = late1, !.buf = rd.buf,
                                      !.got = [cmd |-> c, line |-> rd.line]]
                    ELSE [port EXCEPT !.n = c, !.got = [cmd |-> c, line |-> 0]]
    /\ UNCHANGED <<reading, inst, call, run, table>>

\* OutputController.set_outputs: the MOUT line is written and nothing is read
WireSetOutputs ==
    /\ port.n < MaxCmds
    /\ port' = [port EXCEPT !.n = @ + 1, !.got = [cmd |-> port.n + 1, line |-> 0]]
    /\ UNCHANGED <<reading, inst, call, run, table>>

\* OutputController.query_outputs, the MOUT? exchange: write, sleep 0.2 s,
\* readline
WireQueryOutputs ==
    /\ port.n < MaxCmds
    /\ \E fate \in {"in time", "late", "lost"} :
        LET c == port.n + 1
            buf1 == IF fate = "in time" THEN Append(port.buf, c) ELSE port.buf
            late1 == IF fate = "late" THEN Append(port.late, c) ELSE port.late
            rd == ReadLine(buf1)
        IN  port' = [port EXCEPT !.n = c, !.late = late1, !.buf = rd.buf,
                                 !.got = [cmd |-> c, line |-> rd.line]]
    /\ UNCHANGED <<reading, inst, call, run, table>>

\* a reply that missed its read reaches the input buffer
LateArrives ==
    /\ port.late # <<>>
    /\ port' = [port EXCEPT !.late = Tail(@), !.buf = Append(@, Head(port.late))]
    /\ UNCHANGED <<reading, inst, call, run, table>>

\* TemperatureReader.__init__ on a new run of the program: the buffers are
\* reset once, when the connection is made
WireReopen ==
    /\ port.buf # <<>>
    /\ port' = [port EXCEPT !.buf = <<>>]
    /\ UNCHANGED <<reading, inst, call, run, table>>

\* the inputs whose panel names the GUI asks for, in the order of the calls
DisplayInputs == <<"A", "B", "C", "D1", "D2", "D3", "D4", "D5">>

\* MainWindow.query_temperatures: TemperatureReader(port=port) opens the
\* port, or raises and the handler ends
GuiQueryStart ==
    /\ port.gui.pc = "idle"
    /\ port.open = {}
    /\ port' = [port EXCEPT !.open = @ \cup {"reader"}, !.buf = <<>>,
                            !.gui = [pc |-> "inputs", k |-> 1, names |-> <<>>]]
    /\ UNCHANGED <<reading, inst, call, run, table>>

\* the reads of a group of inputs through the reader (A, B, C; then D1..D5)
GuiReadInputs ==
    /\ port.gui.pc = "inputs"
    /\ port' = [port EXCEPT !.gui.pc = "name_open"]
    /\ UNCHANGED <<reading, inst, call, run, table>>

\* after the name of input k: on to the next name, to the second group of
\* reads after C, to the display of the text after D5
AfterName(g, name) ==
    [pc |-> IF g.k = Len(DisplayInputs) THEN "show"
            ELSE IF g.k = 3 THEN "inputs" ELSE "name_open",
     k |-> IF g.k = Len(DisplayInputs) THEN g.k ELSE g.k + 1,
     names |-> Append(g.names, name)]

\* get_display_name: serial.Serial(port=port, ...) opens its own connection;
\* when that raises the function returns None
GetDisplayNameOpen ==
    /\ port.gui.pc = "name_open"
    /\ \E ok \in BOOLEAN :
        port' = IF ok
                THEN [port EXCEPT !.open = @ \cup {"panel"}, !.gui.pc = "name_ask"]
                ELSE [port EXCEPT !.gui = AfterName(@, "None")]
    /\ UNCHANGED <<reading, inst, call, run, table>>

\* get_display_name: INNAME? is written and one line is read
GetDisplayNameAsk ==
    /\ port.gui.pc = "name_ask"
    /\ \E name \in {"None", "name"} :
        port' = [port EXCEPT !.gui.pc = "name_close",
                             !.gui.names = Append(@, name)]
    /\ UNCHANGED <<reading, inst, call, run, table>>

\* get_display_name, finally: ser.close()
GetDisplayNameClose ==
    /\ port.gui.pc = "name_close"
    /\ LET name == port.gui.names[Len(port.gui.names)]
           before == [port.gui EXCEPT !.names = SubSeq(@, 1, Len(@) - 1)]
       IN  port' = [port EXCEPT !.open = @ \ {"panel"},
                                !.gui = AfterName(before, name)]
    /\ UNCHANGED <<reading, inst, call, run, table>>

\* query_temperatures returns: the text is shown and the reader, a local of
\* the handler, is released and with it its connection
GuiQueryReturn ==
    /\ port.gui.pc = "show"
    /\ port' = [port EXCEPT !.open = @ \ {"reader"}, !.gui = NoGui]
    /\ UNCHANGED <<reading, inst, call, run, table>>

\* check_front_panel_display(port, gl7_controller): with no controller given
\* it makes its own TemperatureReader, with one given it uses that one
CheckDisplayStart ==
    /\ port.gui.pc = "idle"
    /\ \E given \in BOOLEAN :
        /\ given => port.open = {"main"}
        /\ ~given => port.open = {}
        /\ port' = [port EXCEPT
                      !.open = IF given THEN @ ELSE {"display"},
                      !.gui.pc = "display"]
    /\ UNCHANGED <<reading, inst, call, run, table>>

\* check_front_panel_display, end: temp_reader.close() if should_close
CheckDisplayEnd ==
    /\ port.gui.pc = "display"
    /\ port' = [port EXCEPT !.open = @ \ {"display"}, !.gui.pc = "idle"]
    /\ UNCHANGED <<reading, inst, call, run, table>>

-----------------------------------------------------------------------------
(* Specifications *)

Init ==
    /\ reading = InitReading
    /\ inst \in InstInits
    /\ call = InitCall
    /\ run = InitRun
    /\ table = NoTable
    /\ port = NoPort

InitRead ==
    /\ reading \in Requests
    /\ inst = CHOOSE i \in InstInits : TRUE
    /\ call = InitCall
    /\ run = InitRun
    /\ table = NoTable
    /\ port = NoPort

NextRead ==
    \/ ReadTemperature
    \/ ReadResistance
    \/ ReadVoltage
    \/ StepReadHead
    \/ Step6ReadPump3
    \/ Step6ReadPump4
    \/ GuiReadHead
    \/ StepAssessHead
    \/ ReadAgain

InitRunning ==
    /\ reading = InitReading
    /\ inst \in {i \in InstInits : /\ \A o \in Heaters : i.mode[o] = 0
                                  /\ i.analog[3] = i.analog[4]}
    /\ call = InitCall
    /\ run \in {InitRun} \cup {StartRun(f) : f \in FlagSets}
    /\ table = NoTable
    /\ port = NoPort

NextAct ==
    \/ SetHeaterModeAndPower
    \/ TurnOffHeater
    \/ EmergencyStopAllHeaters
    \/ EmergencyShutdown
    \/ SetOutputs
    \/ TurnOnSwitch
    \/ TurnOffSwitch
    \/ SetSwitchState

\* main.py with --start-gl7 or --start-gl7-test-sequence
InitSeq ==
    /\ reading = InitReading
    /\ inst \in InstInits
    /\ call = InitCall
    /\ run \in {StartRun({"start_gl7"}),
                StartRun({TestSequence[k] : k \in 1..Len(TestSequence)})}
    /\ table = NoTable
    /\ port = NoPort

NextSeq ==
    \/ RunConfirm
    \/ RunPrompt
    \/ RunSend
    \/ RunPoll
    \/ RunWould
    \/ RunAbort

NextRun ==
    \/ RunConfirm
    \/ RunPrompt
    \/ RunSend
    \/ RunPoll
    \/ RunWould
    \/ RunAbort
    \/ EmergencyStopAllHeaters
    \/ EmergencyShutdown

\* the reading pipeline
SpecRead == InitRead /\ [][NextRead]_vars

\* the actuator controllers
SpecAct == Init /\ [][NextAct]_vars

\* a GL7 run, with the emergency stop at hand at any moment
SpecRun == InitRunning /\ [][NextRun]_vars

\* the two whole sequences
SpecSeq == InitSeq /\ [][NextSeq]_vars

\* main.py with the flags of the stages up to the pump heating, and up to
\* the 4He pump transition
StageFlags ==
    { {"2a", "2b", "3"}, {"2a", "2b", "3", "4"} }

InitStages ==
    /\ reading = InitReading
    /\ inst \in {i \in InstInits : /\ \A o \in Heaters : i.mode[o] = 0
                                  /\ \A sw \in Switches : i.analog[sw] = "ON"}
    /\ call = InitCall
    /\ run \in {StartRun(f) : f \in StageFlags}
    /\ table = NoTable
    /\ port = NoPort

\* a run through the stages in order
SpecStages == InitStages /\ [][NextSeq]_vars

\* the test sequence and the stages with the power prompts and the
\* monitoring loops, on an instrument with everything off
InitLive ==
    /\ reading = InitReading
    /\ inst \in {i \in InstInits : /\ \A o \in Heaters : i.mode[o] = 0
                                  /\ \A sw \in Switches : i.analog[sw] = "OFF"}
    /\ call = InitCall
    /\ run \in {StartRun({TestSequence[k] : k \in 1..Len(TestSequence)}),
                StartRun({"3", "4"}), StartRun({"5", "6"})}
    /\ table = NoTable
    /\ port = NoPort

\* input() returns once the operator has pressed ENTER; the power loop ends
\* once a number from 0 to 100 has been typed (a RunPrompt step that changes
\* the run); send_command returns after its write, its sleep and a readline
\* that gives up after the port's timeout, so every line of a step and every
\* pass of a monitoring loop is got through.  Ctrl+C may come or not.
Fairness ==
    /\ WF_vars(RunConfirm)
    /\ WF_vars(RunPrompt)
    /\ WF_vars(RunSend)
    /\ WF_vars(RunPoll)
    /\ WF_vars(RunWould)

SpecLive == InitLive /\ [][NextSeq]_vars /\ Fairness

\* the settings the instrument may hold when a status call is made
QueryInits ==
    { [mode |-> m, mout |-> [o \in Heaters |-> p],
       analog |-> [sw \in Switches |-> a]] :
        m \in [Heaters -> {0, OpenLoop}], p \in {0, 50}, a \in {"ON", "OFF"} }

InitQuery ==
    /\ reading = InitReading
    /\ inst \in QueryInits
    /\ call = InitCall
    /\ run = InitRun
    /\ table = NoTable
    /\ port = NoPort

NextQuery ==
    \/ QueryHeaterStatus
    \/ QueryAllHeaters
    \/ QueryRelayHeater
    \/ QueryAnalogHeater
    \/ QueryTemperature
    \/ InitialStatus
    \/ TurnOffHeater

\* status calls on an instrument in use, with the one-heater shutdown at hand
SpecQuery == InitQuery /\ [][NextQuery]_vars

InitWire ==
    /\ reading = InitReading
    /\ inst = CHOOSE i \in InstInits : TRUE
    /\ call = InitCall
    /\ run = InitRun
    /\ table = NoTable
    /\ port = [NoPort EXCEPT !.open = {"reader"}]

NextWire ==
    \/ WireSendCommand
    \/ WireSetOutputs
    \/ WireQueryOutputs
    \/ LateArrives
    \/ WireReopen

\* command lines and replies on one open connection
SpecWire == InitWire /\ [][NextWire]_vars

\* the GUI before a query (port closed), or main.py with its reader open
InitPort ==
    /\ reading = InitReading
    /\ inst = CHOOSE i \in InstInits : TRUE
    /\ call = InitCall
    /\ run = InitRun
    /\ table = NoTable
    /\ port \in {NoPort, [NoPort EXCEPT !.open = {"main"}]}

NextPort ==
    \/ GuiQueryStart
    \/ GuiReadInputs
    \/ GetDisplayNameOpen
    \/ GetDisplayNameAsk
    \/ GetDisplayNameClose
    \/ GuiQueryReturn
    \/ CheckDisplayStart
    \/ CheckDisplayEnd

\* the GUI's temperature query and the front panel check, from a closed port
SpecPort == InitPort /\ [][NextPort]_vars

InitCal ==
    /\ reading = InitReading
    /\ inst = CHOOSE i \in InstInits : TRUE
    /\ call = InitCall
    /\ run = InitRun
    /\ table \in {[NoTable EXCEPT !.kind = kind, !.src = src] :
                     kind \in {"head3", "head4", "pump", "pumps"}, src \in Sources}
    /\ port = NoPort

NextCal ==
    \/ LoadTable
    \/ Interpolate

SpecCal == InitCal /\ [][NextCal]_vars

-----------------------------------------------------------------------------
(* Properties of the reading pipeline (SpecRead) *)

\* the status reply on the line carries a code with bit 5 (32) set
StatusBitSet(link) == StatusOver(send_command(link))

IsOverRange(x) == IsStr(x) /\ x.text \in {T_OVER, R_OVER, V_OVER}

\* the reading reply on the line parses to exactly 0.0
PayloadIsZero(link) ==
    /\ Truthy(send_command(link))
    /\ ParseFloat(send_command(link).text).ok
    /\ ParseFloat(send_command(link).text).val = 0

\* C1: on every channel, heads A and C included, a status code with bit 5
\* set makes read_temperature return the over-range sentinel, never a
\* number, whatever the reading query would return.
C1_StatusBitGivesOverRange ==
    (reading.op = "read_temperature" /\ StatusBitSet(reading.st))
        => (IsOverRange(reading.ret) /\ ~IsFloat(reading.ret))

\* C9: on D2, D3, D4 and D5 a payload that parses to exactly 0.0 is
\* returned as the over-range sentinel, never as the value 0.0.
C9_ZeroOnStageChannelIsOverRange ==
    (/\ reading.op = "read_temperature"
     /\ Upper(reading.ch) \in ZeroIsFault
     /\ PayloadIsZero(reading.rd))
        => reading.ret = PyStr(T_OVER)

\* C9 witness: D3 answered a clean status and a zero payload, and the read
\* came back as T_OVER
C9_Witness ==
    /\ reading.op = "read_temperature"
    /\ Upper(reading.ch) = <<"D", "3">>
    /\ reading.st = Link(TRUE, Eol(<<"0">>))
    /\ PayloadIsZero(reading.rd)
    /\ ~Corrupt(send_command(reading.rd).text)
    /\ Len(reading.sent) = 2
    /\ reading.ret = PyStr(T_OVER)

\* C10: a read-then-calibrate path applies the table only to a positive
\* number; for every sentinel the table is not applied and the same
\* sentinel comes out.
C10_CalibrationOnlyOnPositiveValue ==
    reading.cal.path # "none"
        => IF IsFloat(reading.ret) /\ reading.ret.val > 0
           THEN reading.cal.invoked
           ELSE ~reading.cal.invoked /\ reading.cal.out = reading.ret

-----------------------------------------------------------------------------
(* Properties of the actuator controllers (SpecAct) *)

SetLevelCall == call.op = "set_heater_mode_and_power"

\* C3: when OUTMODE goes out and the MOUT write fails,
\* set_heater_mode_and_power does not report success.
C3_PartialSetLevelIsAnError ==
    (SetLevelCall /\ call.sent[1].ok /\ ~call.sent[2].ok) => call.ret # "True"

\* C4: set_heater_mode_and_power with a percentage below 0 or above 100
\* sends no command and does not report success.
C4_OutOfRangeSendsNothing ==
    (SetLevelCall /\ (call.pct < 0 \/ call.pct > 100))
        => (call.sent = <<>> /\ call.ret # "True")

\* C7: emergency_stop_all_heaters returns True only if every MOUT 0 went
\* out; a failed write gives False.
C7_EmergencyStopReportsFailure ==
    (/\ call.op = "emergency_stop_all_heaters"
     /\ \E k \in 1..Len(call.sent) :
            call.sent[k].cmd.verb = "MOUT" /\ ~call.sent[k].ok)
        => call.ret = "False"

\* C8 as stated: turn_off_heater(o) sends the commands of
\* set_heater_mode_and_power(o, 0): the mode-set, then level 0.
C8_TurnOffSendsWhatSetLevelSends ==
    call.op = "turn_off_heater"
        => Cmds(call.sent)
            = Cmds(set_heater_mode_and_power(call.out, 0, TRUE, TRUE).sent)

\* C8 amended: turn_off_heater(o) sends the level-set command MOUT o,0
\* alone; the modes of both outputs and the level of the other output stay
\* as they were; when the write goes out the level of o is 0, and the
\* outcome is that of set_heater_mode_and_power(o, 0) exactly when o was
\* in open loop mode before.
C8_TurnOffSetsLevelOnly ==
    [][ call'.op = "turn_off_heater" =>
          LET o == call'.out
              viaSetLevel ==
                  DeliverAll(inst, set_heater_mode_and_power(o, 0, TRUE, TRUE).sent)
          IN  /\ Cmds(call'.sent) = <<MOUT(o, 0)>>
              /\ inst'.mode = inst.mode
              /\ inst'.analog = inst.analog
              /\ \A h \in Heaters \ {o} : inst'.mout[h] = inst.mout[h]
              /\ inst'.mout[o] = IF call'.sent[1].ok THEN 0 ELSE inst.mout[o]
              /\ call'.sent[1].ok =>
                    ((inst' = viaSetLevel) <=> (inst.mode[o] = OpenLoop)) ]_vars

\* C8 witness: a heater that is not in open loop mode has been turned off
\* by a MOUT that went out, after the other one was set to a level
C8_Witness ==
    /\ call.op = "turn_off_heater"
    /\ call.sent[1].ok
    /\ inst.mode[call.out] # OpenLoop
    /\ inst.mout[call.out] = 0
    /\ \E h \in Heaters \ {call.out} : inst.mout[h] > 0

-----------------------------------------------------------------------------
(* Properties of the GL7 run (SpecRun) *)

\* the confirmation a step asks for before it sends command c
GateOf(step, c) ==
    CASE step = "2a" /\ c.target = <<"3">> -> "turn ON 4-switch"
      [] step = "2a" /\ c.target = <<"4">> -> "turn ON 3-switch"
      [] step = "2b" /\ c.target = <<"3">> -> "turn OFF 4-switch"
      [] step = "2b" /\ c.target = <<"4">> -> "turn OFF 3-switch"
      [] step = "3" /\ c.target = <<"1">> -> "start 4-pump heater"
      [] step = "3" /\ c.target = <<"2">> -> "start 3-pump heater"
      [] OTHER -> "no gate"

AtConfirm == Running(run) /\ Instr(run).k = "confirm"

\* C2: when step 3 has been aborted, the heaters have been shut down first:
\* the manual output of every heater is 0 %.
C2_AbortShutsHeatersDown ==
    run.left = <<"3", "aborted">> => \A o \in Heaters : inst.mout[o] = 0

\* C5: every ANALOG, OUTMODE or MOUT a step has sent was sent after the
\* ENTER asked for it; while the step waits at a confirmation it sends
\* nothing and moves on by the ENTER or by Ctrl+C alone.
C5_NoActuationBeforeEnter ==
    /\ [](\A k \in 1..Len(run.log) : GateOf(run.step, run.log[k]) \in run.acked)
    /\ [][ (AtConfirm /\ run' # run) =>
              /\ inst' = inst
              /\ run'.log \in {run.log, <<>>}
              /\ \/ run' = Advance([run EXCEPT !.acked = @ \cup {Instr(run).gate}])
                 \/ run'.left = <<run.step, "aborted">> ]_vars

\* C5 witness: step 3 has started both heaters, each after its ENTER, and
\* waits at its last confirmation
C5_Witness ==
    /\ run.step = "3"
    /\ AtConfirm
    /\ Len(run.log) = 4
    /\ {"start 4-pump heater", "start 3-pump heater"} \subseteq run.acked
    /\ \A o \in Heaters : inst.mout[o] = 50

EmergencyCall == call.op \in {"emergency_stop_all_heaters", "emergency_shutdown"}

\* C6: every emergency stop, at any point of a run or with no run, sends
\* MOUT o,0 for heater 1 and for heater 2, also when the write for
\* heater 1 failed.
C6_EmergencyStopCommandsEveryHeater ==
    EmergencyCall
        => \A o \in Heaters :
              \E k \in 1..Len(call.sent) : call.sent[k].cmd = MOUT(o, 0)

\* C6 witness: in step 3, with heater 1 started, emergency_stop_all_heaters
\* ran, its write for heater 1 failed and the one for heater 2 went out
C6_Witness ==
    /\ call.op = "emergency_stop_all_heaters"
    /\ ~call.sent[1].ok
    /\ call.sent[2].cmd = MOUT(2, 0) /\ call.sent[2].ok
    /\ run.step = "3"
    /\ run.log # <<>>
    /\ inst.mout[1] > 0

AtPoll == Running(run) /\ Instr(run).k = "poll"

\* the step has left its monitoring loop and stands at its transition block
AtTransition ==
    /\ Running(run)
    /\ run.step \in {"4", "5"}
    /\ Instr(run).k = "would"

\* C11: a threshold-gated step (4 and 5) checks the temperatures at most as
\* often as its budget allows; when the last check still misses the
\* threshold the step goes on to its transition block all the same, and the
\* assessment it gives there tells that case from the threshold-met one.
C11_BoundedPollThenAdvance ==
    /\ [](AtPoll => run.sub < Instr(run).budget)
    /\ [](AtTransition =>
            /\ run.checks \in 1..Program(run.step)[run.pc - 1].budget
            /\ run.said \in {"met", "advance"}
            /\ run.said = "met"
                 <=> run.targets = Program(run.step)[run.pc - 1].gauges
            /\ run.said = "advance"
                 => run.checks = Program(run.step)[run.pc - 1].budget)
    /\ [][ (AtPoll /\ run' # run) =>
              \/ run'.left = <<run.step, "aborted">>
              \/ /\ run'.step = run.step
                 /\ run'.checks = run.sub + 1
                 /\ IF run'.targets = Instr(run).gauges
                       \/ run'.checks = Instr(run).budget
                    THEN run'.pc = run.pc + 1 /\ Instr(run').k = "would"
                    ELSE run'.pc = run.pc ]_vars

\* C11 witness: step 5 has used its three checks, the 3He head alone came
\* under 2 K in the last one, and the step stands at its transition block
C11_Witness ==
    /\ AtTransition
    /\ run.step = "5"
    /\ run.checks = max_checks
    /\ run.targets = {1}
    /\ run.said = "advance"

-----------------------------------------------------------------------------
(* Properties of the whole sequences (SpecSeq) *)

\* the test steps whose files are among the sources
SourceTestSteps ==
    {"1_test", "2b_test", "3_test", "4_test", "5_test", "6_test"}

QueryVerbs ==
    {"KRDG?", "VRDG?", "OUTMODE?", "MOUT?", "ANALOG?", "RELAY?", "RELAYST?"}

\* C12: whatever the operator types and the sensors answer, test steps 1,
\* 2b, 3, 4, 5 and 6 hand only query lines to send_command: no OUTMODE,
\* MOUT, ANALOG or RELAY setting goes out and the instrument's outputs stay
\* as they were.
C12_TestSequenceSendsOnlyQueries ==
    /\ [](run.step \in SourceTestSteps =>
            /\ run.log = <<>>
            /\ run.last = Cmd("", <<>>, <<>>) \/ run.last.verb \in QueryVerbs)
    /\ [][run.step \in SourceTestSteps => inst' = inst]_vars

\* C12 witness: test step 5 has sent its readings, the operator has pressed
\* ENTER for the heater and for the switch with both heaters in open loop,
\* and the step stands at its last block
C12_Witness ==
    /\ run.step = "5_test"
    /\ run.pc = 5
    /\ run.last = Krdg(<<"5">>)
    /\ run.acked = {"turn OFF 3-pump heater", "turn ON 3-switch"}
    /\ \A o \in Heaters : inst.mode[o] = OpenLoop

RECURSIVE Offset(_)
\* the number of instructions of the first n stages of start_gl7_sequence
Offset(n) == IF n = 0 THEN 0 ELSE Offset(n - 1) + Len(Stages[n])

StageAt(pc) ==
    CHOOSE n \in 1..Len(Stages) : Offset(n - 1) < pc /\ pc <= Offset(n)

FinalStatus == Len(Stages)

\* the stage a sequence run is in, counted from 1
StageOf(r) ==
    IF r.step = "start_gl7" THEN StageAt(r.pc)
    ELSE CHOOSE k \in 1..Len(TestSequence) : TestSequence[k] = r.step

\* C13: once the cooldown sequence has gone through its two pump
\* transitions and stands in its final status stage, it has sent a command
\* setting each pump heater (1, 2) to off and one switching each heat switch
\* (3, 4) on.
C13_TransitionsCommandHeatersOffSwitchesOn ==
    (run.step = "start_gl7" /\ StageAt(run.pc) = FinalStatus)
        => /\ \A o \in Heaters : \E k \in 1..Len(run.log) :
                  run.log[k] \in {MOUT(o, 0), RELAY(o, 0)}
           /\ \A sw \in Switches : \E k \in 1..Len(run.log) :
                  run.log[k] = ANALOG_ON(sw)

AtStageEnd(r) ==
    IF r.step = "start_gl7" THEN r.pc = Offset(StageAt(r.pc))
    ELSE r.pc = Len(Program(r.step))

StageCount(r) ==
    IF r.step = "start_gl7" THEN Len(Stages) ELSE Len(TestSequence)

\* C14: a sequence run starts in its first stage and takes the stages one
\* after the other: the next stage starts only from the end of the one
\* before it, which has returned; no stage is left out or entered twice;
\* the run ends after its last stage, and the one other way out of a stage
\* is Ctrl+C, which ends the run.
C14_StagesInFixedOrder ==
    /\ []((InTestSequence(run.step) /\ run.left = <<>>) => StageOf(run) = 1)
    /\ []((InTestSequence(run.step) /\ run.left # <<>>) =>
             run.left = <<TestSequence[StageOf(run) - 1], "returned">>)
    /\ [][ (Running(run) /\ run' # run) =>
              \/ /\ run'.step = run.step
                 /\ StageOf(run') = StageOf(run)
              \/ /\ Running(run')
                 /\ (run'.step = "start_gl7") <=> (run.step = "start_gl7")
                 /\ StageOf(run') = StageOf(run) + 1
                 /\ AtStageEnd(run)
              \/ /\ ~Running(run')
                 /\ run'.left = <<run.step, "aborted">>
              \/ /\ ~Running(run')
                 /\ run'.left = <<run.step, "returned">>
                 /\ StageOf(run) = StageCount(run)
                 /\ AtStageEnd(run) ]_vars

\* C14 witness: the test sequence has run its seven steps, the last of which
\* has returned
C14_Witness ==
    /\ run.step = "done"
    /\ run.left = <<"6_test", "returned">>
    /\ run.port = "closed"

-----------------------------------------------------------------------------
(* Properties of the calibration tables (SpecCal) *)

\* the valid sample points of the table's file, whatever their order
Points ==
    LET set(p) == {p[k] : k \in 1..Len(p)}
    IN  set(samples(table.src))

\* the table is loaded and a lookup has been made in it
Looked == table.out = "loaded" /\ table.asked

\* the raw value looked up lies between two sample points
InDomain == \E a, b \in Points : a.raw <= table.x /\ table.x <= b.raw

\* a and b are neighbouring sample points with x between them
Brackets(a, b, x) ==
    /\ a.raw < b.raw
    /\ a.raw <= x /\ x <= b.raw
    /\ \A c \in Points : ~(a.raw < c.raw /\ c.raw < b.raw)

\* t is a.temp + (x - a.raw) / (b.raw - a.raw) * (b.temp - a.temp), to the
\* hundredth of a kelvin below
OnLine(a, b, x, t) ==
    LET over == (x - a.raw) * (b.temp - a.temp) - (t - a.temp) * (b.raw - a.raw)
    IN  0 <= over /\ over < b.raw - a.raw

\* the samples (300 K, 5000 Ohm), (10 K, 1100 Ohm), (4 K, 1050 Ohm)
ExamplePoints == {Sample(5000, 30000), Sample(1100, 1000), Sample(1050, 400)}

\* C15: a raw value inside the domain of a loaded table is converted to the
\* linear interpolation between the two samples that bracket it; with the
\* samples (300 K, 5000 Ohm), (10 K, 1100 Ohm), (4 K, 1050 Ohm) the lookup of
\* 1075 Ohm gives 7.0 K.
C15_LinearBetweenBracketingSamples ==
    /\ (Looked /\ InDomain /\ Cardinality(Points) >= 2) =>
           /\ IsFloat(table.ret)
           /\ \E a, b \in Points :
                  Brackets(a, b, table.x) /\ OnLine(a, b, table.x, table.ret.val)
    /\ (Looked /\ Points = ExamplePoints /\ table.x = 1075) =>
           table.ret = PyFloat(700)

\* C15 witness: the 4-head table loaded from the three example rows, given
\* from the warmest to the coldest, has converted 1075 Ohm to 7.0 K
C15_Witness ==
    /\ Looked
    /\ table.kind = "head4"
    /\ Len(table.src) = 3
    /\ Points = ExamplePoints
    /\ table.it.tab[1] = Sample(1050, 400)
    /\ table.x = 1075
    /\ table.ret = PyFloat(700)

\* C16: in every loaded table the lookup of the raw value of a sample gives
\* that sample's temperature, the first and the last sample included, in
\* whatever order the rows stand in the file.
C16_RoundTripAtSamplePoints ==
    Looked => \A s \in Points : s.raw = table.x => table.ret = PyFloat(s.temp)

\* C16 witness: the pump/diode table of PumpsCalibrator, read from a file
\* whose rows are not in order of raw value, has converted the raw value of
\* its last sample, which stands in the middle of the file
C16_Witness ==
    /\ Looked
    /\ table.kind = "pumps"
    /\ table.src = << << <<"4">>, <<"1", "0", "5", "0">> >>,
                      << <<"3", "0", "0">>, <<"5", "0", "0", "0">> >>,
                      << <<"1", "0">>, <<"1", "1", "0", "0">> >> >>
    /\ table.x = 5000
    /\ table.ret = PyFloat(30000)

\* the raw value x lies between two sample points
Inside(x) == \E a, b \in Points : a.raw <= x /\ x <= b.raw

\* the resistance falls as the temperature rises: of two samples the one with
\* the larger raw value has the lower temperature
Decreasing == \A a, b \in Points : a.raw < b.raw => a.temp > b.temp

\* C17: in a table whose resistance decreases as the temperature increases,
\* of two raw values inside the calibrated domain the smaller one is never
\* converted to the lower temperature.
C17_MonotoneInsideDomain ==
    (Looked /\ Decreasing /\ Inside(table.x)) =>
        /\ IsFloat(table.ret)
        /\ \A x2 \in {x \in RawInputs : Inside(x)} :
               /\ table.x < x2 =>
                      table.ret.val >= Lookup(table.kind, table.it, x2).ret.val
               /\ x2 < table.x =>
                      Lookup(table.kind, table.it, x2).ret.val >= table.ret.val

\* C17 witness: a 3-head table of three samples falling from 20 K at
\* 1000 Ohm to 2 K at 2000 Ohm, given out of order, has converted 1075 Ohm
\* to 12.5 K, between the 20 K of 1000 Ohm and the 10 K of 1100 Ohm
C17_Witness ==
    /\ Looked
    /\ table.kind = "head3"
    /\ Decreasing
    /\ Points = {Sample(1000, 2000), Sample(1100, 1000), Sample(2000, 200)}
    /\ table.it.tab # samples(table.src)
    /\ table.x = 1075
    /\ table.ret = PyFloat(1250)

\* the sample with the smallest / the largest raw value
Lowest == CHOOSE s \in Points : \A c \in Points : s.raw <= c.raw
Highest == CHOOSE s \in Points : \A c \in Points : c.raw <= s.raw

\* a and b are the two samples at the end of the table beyond which x lies
EndSegment(a, b, x) ==
    /\ a.raw < b.raw
    /\ \A c \in Points : ~(a.raw < c.raw /\ c.raw < b.raw)
    /\ \/ x < a.raw /\ a = Lowest
       \/ x > b.raw /\ b = Highest

\* C18: a positive raw value below or above the domain of a loaded table is
\* converted, by a head-thermometer table (3-head or 4-head), to the
\* temperature of the nearest boundary sample, and by a pump/diode table to
\* the linear extrapolation of the end segment, with a warning.
C18_ClampForHeadsExtrapolateForPumps ==
    (Looked /\ table.x > 0 /\ ~Inside(table.x)) =>
        IF table.kind \in {"head3", "head4"}
        THEN table.ret = PyFloat(IF table.x < Lowest.raw THEN Lowest.temp
                                 ELSE Highest.temp)
        ELSE /\ IsFloat(table.ret)
             /\ table.warned
             /\ \E a, b \in Points :
                    EndSegment(a, b, table.x) /\ OnLine(a, b, table.x, table.ret.val)

\* C19: a lookup with a raw value that is not greater than 0 gives the
\* no-temperature value in every loaded table, and never raises.
C19_NonPositiveRawGivesNoTemperature ==
    (Looked /\ table.x <= 0) => table.ret = PyNone

\* C20: the load keeps exactly the well-formed rows, and with fewer than two
\* of them it fails with an error and leaves no table to interpolate in.
C20_LoadFailsBelowTwoPoints ==
    table.out # "new" =>
        /\ Cardinality(Points) < 2 =>
               /\ table.out \in {"ValueError", "IndexError"}
               /\ table.it.how = "none"
        /\ table.out = "loaded" =>
               {table.it.tab[k] : k \in 1..Len(table.it.tab)} = Points

-----------------------------------------------------------------------------
(* Properties of the read-then-calibrate paths, continued (SpecRead) *)

\* the call read a head channel and then applied the head's table
HeadCalibrated == reading.op \in {"step_head", "gui_head"} /\ reading.cal.invoked

\* C21: on a head channel the temperature of the read-then-calibrate path is
\* the table applied to the very resistance the read returned: the value
\* handed to the table is the one read, with no offset, and the result is the
\* table's result for it.
C21_CalibratedIsInterpolateOfRead ==
    HeadCalibrated =>
        /\ IsFloat(reading.ret)
        /\ reading.cal.arg = reading.ret.val
        /\ reading.cal.out = IF reading.ch = <<"A">>
                             THEN convert_3head_resistance_to_temperature(reading.ret.val)
                             ELSE convert_4head_resistance_to_temperature(reading.ret.val)

-----------------------------------------------------------------------------
(* Properties of the monitoring of the steps, continued (SpecRun) *)

\* step 4 has read its two heads and made its transition assessment
Step4Assessed == run.step = "4" /\ run.checks = 1

\* what the heads (gauge 1: 3He head, gauge 2: 4He head) read in step 4
Heads(t3, t4) == run.temp[1] = PyFloat(t3) /\ run.temp[2] = PyFloat(t4)

\* C22: the pump-transition step finds both heads at 4 K exactly when both
\* head temperatures are numbers and each is at most 4.0 K; heads at 3.9 K
\* and 4.1 K are not both at 4 K, heads at 3.9 K and 3.95 K are.
C22_BothHeadsAtMost4K ==
    Step4Assessed =>
        /\ run.said = "met" <=>
               \A g \in {1, 2} : IsFloat(run.temp[g]) /\ run.temp[g].val <= 400
        /\ Heads(390, 410) => run.said # "met"
        /\ Heads(390, 395) => run.said = "met"

\* C22 witness: step 4 has read 3.9 K and 3.95 K and found both heads at 4 K
C22_Witness ==
    /\ Step4Assessed
    /\ Heads(390, 395)
    /\ run.said = "met"
    /\ run.targets = {1, 2}

-----------------------------------------------------------------------------
(* Properties of what the steps report (SpecRead) *)

\* the read of the head gave a sentinel: an over-range or no-response tag, or
\* the text that could not be parsed
SentinelRead == IsStr(reading.ret) /\ reading.ret.text # <<>>

\* C23: a sensor of a stage's snapshot whose reading is a sentinel is
\* reported with its sentinel tag, not left out and not replaced: for a head
\* read by a step, what the step prints is the tag that the read returned.
C23_SentinelReportedWithItsTag ==
    (reading.op = "step_head" /\ SentinelRead) =>
        print_head(reading.cal) = reading.ret

\* a read of TemperatureReader has sent its reading query and has returned
ReaderAsked ==
    /\ reading.op \in {"read_temperature", "read_resistance", "read_voltage"}
    /\ reading.sent # <<>>
    /\ reading.sent[Len(reading.sent)].verb \in {"KRDG?", "SRDG?", "VRDG?"}

\* the reading query met a write that failed, a read timeout or an empty line
NoAnswer ==
    \/ ~reading.rd.writeOk
    \/ Strip(reading.rd.line) = <<>>

\* C24: a transport failure or an empty or absent response to the reading
\* query never raises out of the read: the read returns the no-response
\* sentinel, and the read can be asked again.
C24_NoAnswerIsNoResponse ==
    /\ reading.ret.type # "raise"
    /\ (ReaderAsked /\ NoAnswer) =>
           /\ reading.ret = PyStr(NO_RESPONSE)
           /\ ENABLED ReadAgain

\* C24 witness: read_temperature of a stage channel whose status query was
\* answered and whose reading query could not be written has returned
\* NO_RESPONSE
C24_Witness ==
    /\ reading.op = "read_temperature"
    /\ Len(reading.sent) = 2
    /\ reading.st.writeOk
    /\ ~reading.rd.writeOk
    /\ reading.ret = PyStr(NO_RESPONSE)

\* the read got no status code to go by: read_resistance and read_voltage
\* (and read_temperature on a head) ask for none, and the status query of
\* read_temperature was not answered with an integer
NoStatusCode ==
    \/ Len(reading.sent) = 1
    \/ ~(Truthy(send_command(reading.st))
         /\ ParseInt(send_command(reading.st).text).ok)

\* the reading query was answered with a line that is over 15 characters
\* long or holds a backtick or a NUL byte
CorruptAnswer ==
    /\ Truthy(send_command(reading.rd))
    /\ Corrupt(send_command(reading.rd).text)

\* C25: without a usable status code, a reading response that bears a
\* corruption signature (more than 15 characters, a backtick, a NUL byte)
\* comes back as the over-range sentinel of the read, never as a number.
C25_CorruptAnswerIsOverRange ==
    (ReaderAsked /\ NoStatusCode /\ CorruptAnswer) =>
        /\ ~IsFloat(reading.ret)
        /\ reading.ret = PyStr(CASE reading.sent[Len(reading.sent)].verb = "KRDG?" -> T_OVER
                                 [] reading.sent[Len(reading.sent)].verb = "SRDG?" -> R_OVER
                                 [] OTHER -> V_OVER)

\* C25 witness: read_temperature of input B, whose status query was answered
\* with text that is no integer, met a line of 16 characters that float()
\* would take, and returned T_OVER
C25_Witness ==
    /\ reading.op = "read_temperature"
    /\ reading.ch = <<"B">>
    /\ reading.st = Link(TRUE, Eol(<<"3", "x">>))
    /\ Len(send_command(reading.rd).text) = 16
    /\ ParseFloat(send_command(reading.rd).text).ok
    /\ reading.ret = PyStr(T_OVER)

-----------------------------------------------------------------------------
(* Properties of the actuator commands, continued (SpecAct) *)

\* the actuation command lines that step sends from its instruction k on,
\* when its power prompts were answered with pw
RECURSIVE ScriptFrom(_, _, _)
ScriptFrom(step, pw, k) ==
    IF k > Len(Program(step)) THEN <<>>
    ELSE LET r == [InitRun EXCEPT !.step = step, !.pc = k, !.power = pw]
             actuates(c) == c.verb \in ActuationVerbs
         IN  (IF Instr(r).k \in {"send", "heater"}
              THEN SelectSeq(CmdsOf(r), actuates) ELSE <<>>)
             \o ScriptFrom(step, pw, k + 1)

\* the instrument after every line of cmds has reached it, in order
RECURSIVE ApplyAll(_, _)
ApplyAll(i, cmds) ==
    IF cmds = <<>> THEN i ELSE ApplyAll(Apply(i, Head(cmds)), Tail(cmds))

SwitchLines(sw) == {ANALOG_ON(sw), ANALOG_OFF(sw)}

-----------------------------------------------------------------------------
(* Properties of the status calls (SpecQuery) *)

\* the level reply of the last status query, and whether it reads as a number
LevelReply == send_command(call.links[2])

LevelParses == Truthy(LevelReply) /\ ParseFloat(LevelReply.text).ok

SnapshotOps ==
    {"read_temperature", "query_heater_status", "query_all_heaters",
     "query_relay_heater", "query_analog_heater", "execute_step1"}

\* the verbs of the query lines
StatusVerbs == QueryVerbs \cup {"RDGST?", "SRDG?"}

\* C29: a temperature read, a heater, relay or analog-output status query and
\* the initial status check hand only query lines to send_command, and the
\* heater modes, the manual outputs and the switch voltages of the instrument
\* are after the call what they were before it.
C29_StatusCallsOnlyAsk ==
    /\ [](call.op \in SnapshotOps =>
            \A k \in 1..Len(call.sent) : call.sent[k].cmd.verb \in StatusVerbs)
    /\ [][call'.op \in SnapshotOps => inst' = inst]_vars

C29_Witness ==
    /\ call.op = "execute_step1"
    /\ Len(call.sent) = 11
    /\ \A k \in 1..Len(call.sent) : call.sent[k].ok
    /\ inst.mode[1] = OpenLoop
    /\ inst.mout[1] = 50

-----------------------------------------------------------------------------
(* Properties of the cancellation of a run (SpecRun) *)

\* the step at hand is waiting for the operator: an ENTER or a typed power
AtWait(r) == Instr(r).k \in {"confirm", "prompt"}

\* the step at hand has just been entered and has done nothing yet
AtStageStart(r) == r.pc = 1 /\ r.sub = 0

\* C30: a Ctrl+C ends a step only where the step has just been entered or is
\* waiting for the operator; it never ends a step part-way through the
\* command lines of one instruction, in particular not between the OUTMODE
\* and the MOUT of one set_heater_mode_and_power call.
C30_AbortOnlyBetweenStagesOrAtWait ==
    [][(Running(run) /\ run' = Leave(run, "aborted"))
          => (AtStageStart(run) \/ AtWait(run))]_vars

-----------------------------------------------------------------------------
(* Properties of the threshold checks of the steps (SpecRead) *)

\* a step has held a number it read from a head against its threshold
HeadHeld ==
    /\ reading.op \in {"step3_check", "step4_check", "step5_check"}
    /\ IsFloat(reading.cal.held)

\* the reading came from the resistance query
ReadInOhms == reading.sent # <<>> /\ reading.sent[Len(reading.sent)].verb = "SRDG?"

\* C31: the number a step holds against its Kelvin threshold (4 K in steps 3
\* and 4, 2 K in step 5) for a head is a temperature: the head's reading has
\* gone through the head's calibration table first and the number held is
\* the table's result; a resistance as read is never held against the
\* threshold.
C31_HeldValueIsKelvin ==
    HeadHeld =>
        /\ reading.cal.invoked
        /\ reading.cal.held = reading.cal.out
        /\ ~(ReadInOhms /\ reading.cal.held = reading.ret)

-----------------------------------------------------------------------------
(* Properties of the order of the queries of a read (SpecRead) *)

ReadingVerbs == {"KRDG?", "SRDG?", "VRDG?"}

\* the positions of the reading queries among the command lines of the call
ReadingQueries == {k \in 1..Len(reading.sent) : reading.sent[k].verb \in ReadingVerbs}

\* C32: in a read_temperature call every reading query is preceded by the
\* status query RDGST? for the same channel, and when the status code has
\* bit 5 set the call sends no reading query.
C32_StatusQueryComesFirst ==
    reading.op = "read_temperature" =>
        /\ \A k \in ReadingQueries :
              \E j \in 1..(k - 1) :
                  /\ reading.sent[j].verb = "RDGST?"
                  /\ reading.sent[j].target = reading.sent[k].target
        /\ StatusBitSet(reading.st) => ReadingQueries = {}

-----------------------------------------------------------------------------
(* Properties of the heater setter, continued (SpecAct) *)

\* C33: a set_heater_mode_and_power call with a power in 0..100 hands
\* exactly two command lines to send_command: one OUTMODE for the output,
\* then one MOUT for the same output with the power asked for; when a write
\* fails neither line is sent a second time.
C33_OneModeSetThenOneLevelSet ==
    (call.op = "set_heater_mode_and_power" /\ call.pct \in 0..100) =>
        /\ Len(call.sent) = 2
        /\ call.sent[1].cmd = OUTMODE(call.out, OpenLoop)
        /\ call.sent[2].cmd = MOUT(call.out, call.pct)

\* C33 witness: the OUTMODE went out, the write of the MOUT failed, and the
\* call has ended with those two lines
C33_Witness ==
    /\ call.op = "set_heater_mode_and_power"
    /\ call.pct = 50
    /\ Len(call.sent) = 2
    /\ call.sent[1].ok
    /\ ~call.sent[2].ok
    /\ call.sent[2].cmd.verb = "MOUT"

-----------------------------------------------------------------------------
(* Properties of the exchanges on the serial line (SpecWire) *)

\* C34: the line handed back for a command is the instrument's answer to
\* that command: whatever was late, lost or never produced before, an
\* exchange never hands back a line that answers an earlier command.
C34_ReplyBelongsToItsCommand ==
    port.got.line # 0 => port.got.line = port.got.cmd

-----------------------------------------------------------------------------
(* Properties of the connections to the port (SpecPort) *)

\* C37: at every moment at most one connection to the serial port is open.
C37_OneConnectionAtATime == Cardinality(port.open) <= 1

-----------------------------------------------------------------------------
(* Properties of a run through the stages in order (SpecStages)              *)

\* a line of stage 3 that sets a pump heater to a power above zero has just
\* been handed to send_command
HeaterOnSent ==
    /\ run.step = "3"
    /\ run.last.verb = "MOUT"
    /\ run.last.args[1] > 0

\* C35: whenever stage 3 sends a line that sets a pump heater to a power
\* above zero, the last line sent to each heat switch (analog outputs 3 and
\* 4) in the run was its OFF line.
C35_SwitchesOffBeforeHeaterOn ==
    HeaterOnSent => \A sw \in Switches : sw \in run.off

\* the same when stage 2b has returned just before stage 3
SwitchesOffWhenStage2bReturned ==
    (HeaterOnSent /\ run.left = <<"2b", "returned">>)
        => \A sw \in Switches : sw \in run.off

\* the level-set lines stage 3 has handed to send_command
LevelSets ==
    {k \in 1..Len(run.log) : run.step = "3" /\ run.log[k].verb = "MOUT"}

\* C36: every level-set line stage 3 sends carries a power from 0 to 100,
\* the power typed at the prompt of its heater; text that is not a number or
\* is out of that range never reaches the instrument.
C36_Stage3PowerWithinRange ==
    \A k \in LevelSets :
        /\ 0 <= run.log[k].args[1]
        /\ run.log[k].args[1] <= 100
        /\ run.log[k].args[1] = run.power[OutNum(run.log[k].target)]

\* stage 3 has sent the level-set lines of both heaters, one with the highest
\* power the prompt takes and one with the lowest
C36_Witness ==
    /\ \E k \in LevelSets : run.log[k].args[1] = 100
    /\ \E k \in LevelSets : run.log[k].args[1] = 0

-----------------------------------------------------------------------------
(* Properties of a run whose prompts are answered (SpecLive)                 *)

\* main.py: the last of the flagged steps in the order of the calls
FinalStage(flags) ==
    StepOrder[CHOOSE i \in 1..Len(StepOrder) :
                /\ StepOrder[i] \in flags
                /\ \A j \in 1..Len(StepOrder) : StepOrder[j] \in flags => j <= i]

\* C38: with every confirmation acknowledged, a power from 0 to 100 typed at
\* each power prompt and every read returning, a run comes to its end; it
\* ends with the return of its last stage unless Ctrl+C has ended it, and a
\* monitoring loop never makes more checks than its count.
C38_RunReachesItsFinalStageAndReturns ==
    /\ <>(run.step = "done")
    /\ [](run.step = "done" =>
            \/ run.left = <<FinalStage(run.flags), "returned">>
            \/ run.left[2] = "aborted")
    /\ [](Running(run) /\ Instr(run).k = "poll" => run.sub < Instr(run).budget)

\* the test sequence has ended with the return of its last stage
C38_Witness ==
    /\ run.flags = {TestSequence[k] : k \in 1..Len(TestSequence)}
    /\ run.step = "done"
    /\ run.left = <<"6_test", "returned">>

-----------------------------------------------------------------------------
(* Properties of the pump/switch diode table of PumpsCalibrator (SpecCal)    *)

\* C39: the table of PumpsCalibrator converts a voltage below its smallest
\* sample voltage to the temperature of the sample with the smallest voltage,
\* and a voltage above its largest to the temperature of the sample with the
\* largest voltage, in whatever order the rows stand in the file.
C39_PumpsClampToNearestSample ==
    (Looked /\ table.kind = "pumps" /\ table.x > 0 /\ ~Inside(table.x)) =>
        table.ret = PyFloat(IF table.x < Lowest.raw THEN Lowest.temp
                            ELSE Highest.temp)

====
